---- MODULE Spec2Model ----
(***************************************************************************)
(* LitLua: literate Markdown -> Lua.  A model of the transformer (output   *)
(* path policy, backup policy, file effects), of the shadow writer, of the *)
(* LSP document service (shadow workspace, shadow URI map) and of the LSP  *)
(* server's debounced didChange handling and diagnostics relay.            *)
(*                                                                         *)
(* Strings are sequences of one-character strings, so that suffix          *)
(* trimming, path joining and URI parsing are computed, not assumed.       *)
(***************************************************************************)
EXTENDS Integers, Sequences, FiniteSets, TLC

(***************************************************************************)
(* Go standard library: strings                                            *)
(***************************************************************************)
HasSuffix(s, suffix) ==
    /\ Len(s) >= Len(suffix)
    /\ SubSeq(s, Len(s) - Len(suffix) + 1, Len(s)) = suffix

TrimSuffix(s, suffix) ==
    IF HasSuffix(s, suffix) THEN SubSeq(s, 1, Len(s) - Len(suffix)) ELSE s

HasPrefix(s, prefix) ==
    /\ Len(s) >= Len(prefix)
    /\ SubSeq(s, 1, Len(prefix)) = prefix

TrimPrefix(s, prefix) ==
    IF HasPrefix(s, prefix) THEN SubSeq(s, Len(prefix) + 1, Len(s)) ELSE s

\* Index of the last occurrence of character c in s, 0 when absent.
RECURSIVE LastIndex(_, _)
LastIndex(s, c) ==
    IF s = <<>> THEN 0
    ELSE IF s[Len(s)] = c THEN Len(s)
    ELSE LastIndex(SubSeq(s, 1, Len(s) - 1), c)

\* Index of the first occurrence of character c in s at or after position i,
\* 0 when absent.
RECURSIVE IndexFrom(_, _, _)
IndexFrom(s, c, i) ==
    IF i > Len(s) THEN 0
    ELSE IF s[i] = c THEN i
    ELSE IndexFrom(s, c, i + 1)

\* strings.Split(s, sep) for a one-character separator: the pieces between
\* separators, empty pieces included.
RECURSIVE Split(_, _)
Split(s, sep) ==
    LET i == IndexFrom(s, sep, 1)
    IN  IF i = 0 THEN <<s>>
        ELSE <<SubSeq(s, 1, i - 1)>> \o Split(SubSeq(s, i + 1, Len(s)), sep)

(***************************************************************************)
(* Go standard library: path/filepath (Unix)                               *)
(***************************************************************************)
Slash == "/"
Dot == <<".">>
DotDot == <<".", ".">>

\* The component stack of filepath.Clean: "." and empty components are
\* dropped, ".." removes the component before it (at the root it is dropped,
\* in a relative path with nothing to remove it is kept).
RECURSIVE CleanParts(_, _, _)
CleanParts(parts, acc, rooted) ==
    IF parts = <<>> THEN acc
    ELSE LET p == Head(parts)
             rest == Tail(parts)
         IN  IF p = <<>> \/ p = Dot THEN CleanParts(rest, acc, rooted)
             ELSE IF p = DotDot
                  THEN IF acc /= <<>> /\ acc[Len(acc)] /= DotDot
                       THEN CleanParts(rest, SubSeq(acc, 1, Len(acc) - 1), rooted)
                       ELSE IF rooted THEN CleanParts(rest, acc, rooted)
                       ELSE CleanParts(rest, Append(acc, p), rooted)
             ELSE CleanParts(rest, Append(acc, p), rooted)

RECURSIVE JoinParts(_)
JoinParts(parts) ==
    IF parts = <<>> THEN <<>>
    ELSE IF Len(parts) = 1 THEN parts[1]
    ELSE parts[1] \o <<Slash>> \o JoinParts(Tail(parts))

\* filepath.Clean
Clean(path) ==
    IF path = <<>> THEN Dot
    ELSE LET rooted == path[1] = Slash
             body == JoinParts(CleanParts(Split(path, Slash), <<>>, rooted))
         IN  IF rooted THEN <<Slash>> \o body
             ELSE IF body = <<>> THEN Dot ELSE body

\* filepath.Dir: everything up to the last separator, cleaned.
Dir(path) == Clean(SubSeq(path, 1, LastIndex(path, Slash)))

RECURSIVE StripTrailingSlashes(_)
StripTrailingSlashes(path) ==
    IF path /= <<>> /\ path[Len(path)] = Slash
    THEN StripTrailingSlashes(SubSeq(path, 1, Len(path) - 1))
    ELSE path

\* filepath.Base: the last element of the path.
Base(path) ==
    IF path = <<>> THEN Dot
    ELSE LET p == StripTrailingSlashes(path)
         IN  IF p = <<>> THEN <<Slash>>
             ELSE SubSeq(p, LastIndex(p, Slash) + 1, Len(p))

\* filepath.Join of two elements: empty elements are ignored, the rest is
\* joined with a separator and cleaned.
Join(a, b) ==
    IF a = <<>> /\ b = <<>> THEN <<>>
    ELSE IF a = <<>> THEN Clean(b)
    ELSE IF b = <<>> THEN Clean(a)
    ELSE Clean(a \o <<Slash>> \o b)

(***************************************************************************)
(* String constants of the program                                         *)
(***************************************************************************)
InputExt == <<".", "l", "i", "t", "l", "u", "a", ".", "m", "d">>
LitLuaLuaExt == <<".", "l", "i", "t", "l", "u", "a", ".", "l", "u", "a">>
LuaExt == <<".", "l", "u", "a">>
LitLuaExt == <<".", "l", "i", "t", "l", "u", "a">>
MdExt == <<".", "m", "d">>
BakExt == <<".", "b", "a", "k">>
NL == "\n"

ModePretty == "Pretty"
ModeShadow == "Shadow"

(***************************************************************************)
(* Parser.  The Markdown grammar (goldmark) is outside the program: a text *)
(* is given as the sequence of block nodes the grammar yields for it, each *)
(* with the number of source lines it spans.  A node is                    *)
(*   kind   "html" (an HTML block), "code" (a fenced code block) or        *)
(*          "other" (heading, paragraph, ...)                              *)
(*   comment  html: the block is of the comment type (HTMLBlockType2)      *)
(*   match, key, value  html: whether the line matches pragmaRegex, and    *)
(*          the two groups it captures                                     *)
(*   lang, body  code: the language tag and the content lines, each with   *)
(*          its newline, concatenated                                      *)
(*   span   the number of source lines of the node (for a code node the    *)
(*          fence lines included)                                          *)
(***************************************************************************)
HtmlNode(key, value) ==
    [kind |-> "html", comment |-> TRUE, match |-> TRUE, key |-> key,
     value |-> value, lang |-> "", body |-> <<>>, span |-> 1]

OtherNode(span) ==
    [kind |-> "other", comment |-> FALSE, match |-> FALSE, key |-> "",
     value |-> <<>>, lang |-> "", body |-> <<>>, span |-> span]

RECURSIVE Count(_, _)
Count(s, c) ==
    IF s = <<>> THEN 0
    ELSE (IF Head(s) = c THEN 1 ELSE 0) + Count(Tail(s), c)

CodeNode(lang, body) ==
    [kind |-> "code", comment |-> FALSE, match |-> FALSE, key |-> "",
     value |-> <<>>, lang |-> lang, body |-> body,
     span |-> Count(body, NL) + 2]

\* strconv.ParseBool: the spellings it accepts.
BoolTrue == { <<"1">>, <<"t">>, <<"T">>, <<"T", "R", "U", "E">>,
              <<"t", "r", "u", "e">>, <<"T", "r", "u", "e">> }
BoolFalse == { <<"0">>, <<"f">>, <<"F">>, <<"F", "A", "L", "S", "E">>,
               <<"f", "a", "l", "s", "e">>, <<"F", "a", "l", "s", "e">> }

NoPragma == [Output |-> <<>>, Force |-> FALSE, Debug |-> FALSE]

\* A reading of pragma lines that keeps the old value of a boolean key
\* whose value is no boolean.
extractPragmaFromLine_Lenient(pragma, node) ==
    IF ~node.match THEN [err |-> "", pragma |-> pragma]
    ELSE IF node.key = "output"
         THEN [err |-> "", pragma |-> [pragma EXCEPT !.Output = node.value]]
    ELSE IF node.key = "debug" /\ node.value \in BoolTrue \cup BoolFalse
         THEN [err |-> "", pragma |-> [pragma EXCEPT !.Debug = node.value \in BoolTrue]]
    ELSE IF node.key = "force" /\ node.value \in BoolTrue \cup BoolFalse
         THEN [err |-> "", pragma |-> [pragma EXCEPT !.Force = node.value \in BoolTrue]]
    ELSE [err |-> "", pragma |-> pragma]

\* extractPragmaFromLine: the pragma after the line, or an error.
extractPragmaFromLine(pragma, node) ==
    IF ~node.match THEN [err |-> "", pragma |-> pragma]
    ELSE IF node.key = "output"
         THEN [err |-> "", pragma |-> [pragma EXCEPT !.Output = node.value]]
    ELSE IF node.key = "debug"
         THEN IF node.value \in BoolTrue \cup BoolFalse
              THEN [err |-> "",
                    pragma |-> [pragma EXCEPT !.Debug = node.value \in BoolTrue]]
              ELSE [err |-> "parse", pragma |-> pragma]
    ELSE IF node.key = "force"
         THEN IF node.value \in BoolTrue \cup BoolFalse
              THEN [err |-> "",
                    pragma |-> [pragma EXCEPT !.Force = node.value \in BoolTrue]]
              ELSE [err |-> "parse", pragma |-> pragma]
    ELSE [err |-> "", pragma |-> pragma]

\* A handler that takes a block of any language.
handleCodeBlock_AnyLanguage(blocks, node, line) ==
    IF node.body = <<>> THEN blocks
    ELSE Append(blocks,
                [Code |-> node.body,
                 StartLine |-> line + 1,
                 EndLine |-> line + 1 + Count(node.body, NL)])

\* handleCodeBlock: the blocks after the node.  line is the source line of
\* the node's first line (its opening fence).
handleCodeBlock(blocks, node, line) ==
    IF node.lang /= "lua" \/ node.body = <<>> THEN blocks
    ELSE Append(blocks,
                [Code |-> node.body,
                 StartLine |-> line + 1,
                 EndLine |-> line + 1 + Count(node.body, NL)])

\* walkAst over the nodes from index i on: hasWalkedOtherNodes is set by
\* the first node that is not an HTML block, pragmas are read from comment
\* blocks before that.
RECURSIVE walkAst(_, _, _, _, _, _)
walkAst(nodes, i, line, hasWalkedOtherNodes, pragma, blocks) ==
    IF i > Len(nodes) THEN [err |-> "", Pragmas |-> pragma, Blocks |-> blocks]
    ELSE LET n == nodes[i]
             walked == hasWalkedOtherNodes \/ n.kind /= "html"
             pr == IF n.kind = "html" /\ ~walked /\ n.comment
                   THEN extractPragmaFromLine(pragma, n)
                   ELSE [err |-> "", pragma |-> pragma]
             bl == IF n.kind = "code" THEN handleCodeBlock(blocks, n, line)
                   ELSE blocks
         IN  IF pr.err /= "" THEN [err |-> pr.err, Pragmas |-> pragma, Blocks |-> blocks]
             ELSE walkAst(nodes, i + 1, line + n.span, walked, pr.pragma, bl)

\* ParseMarkdownDoc: the Document (Pragmas, Blocks) or an error.
ParseMarkdownDoc(nodes) ==
    LET r == walkAst(nodes, 1, 1, FALSE, NoPragma, <<>>)
    IN  IF r.err /= "" THEN r
        ELSE IF r.Blocks = <<>>
             THEN [err |-> "parse", Pragmas |-> r.Pragmas, Blocks |-> <<>>]
             ELSE r

(***************************************************************************)
(* Writer                                                                  *)
(***************************************************************************)
RECURSIVE Flatten(_)
Flatten(seqs) ==
    IF seqs = <<>> THEN <<>> ELSE Head(seqs) \o Flatten(Tail(seqs))

\* WriteHeader: the header comment, its three parameters kept as tokens.
WriteHeader(absSource, generated) ==
    <<"-- Generated by LitLua ", "VERSION", NL, "-- Source: ">> \o absSource
        \o <<NL, "-- Generated: ", generated, NL, NL, "-- WARNING", NL, NL>>

\* A writer that relies on each block's own final newline.
writePretty_NoNewline(blocks) ==
    [err |-> "", line |-> 0,
     out |-> Flatten([k \in 1..Len(blocks) |-> blocks[k].Code])]

\* writePretty: every block's Code followed by a newline, in order.
writePretty(blocks) ==
    [err |-> "", line |-> 0,
     out |-> Flatten([k \in 1..Len(blocks) |-> blocks[k].Code \o <<NL>>])]

\* The inner loop of writeShadow: line i (from 0) of the block goes to index
\* startLine + i - 1 of lines (0-indexed), that is element startLine + i of
\* the 1-indexed sequence here.  An index outside lines is Go's run-time
\* panic; a target that is not empty is the collision error.
RECURSIVE placeBlockLines(_, _, _, _)
placeBlockLines(lines, blockLines, startLine, i) ==
    IF i >= Len(blockLines) THEN [err |-> "", line |-> 0, lines |-> lines]
    ELSE LET target == startLine + i
         IN  IF target < 1 \/ target > Len(lines)
             THEN [err |-> "panic", line |-> target, lines |-> lines]
             ELSE IF lines[target] /= <<>>
             THEN [err |-> "collision", line |-> target, lines |-> lines]
             ELSE placeBlockLines([lines EXCEPT ![target] = blockLines[i + 1]],
                                  blockLines, startLine, i + 1)

RECURSIVE placeBlocks(_, _, _)
placeBlocks(lines, blocks, k) ==
    IF k > Len(blocks) THEN [err |-> "", line |-> 0, lines |-> lines]
    ELSE LET r == placeBlockLines(lines, Split(blocks[k].Code, NL),
                                  blocks[k].StartLine, 0)
         IN  IF r.err /= "" THEN r ELSE placeBlocks(r.lines, blocks, k + 1)

\* A writer that emits only the lines that hold code.
writeShadow_Compact(blocks) ==
    LET maxLine == blocks[Len(blocks)].EndLine
        r == placeBlocks([i \in 1..maxLine |-> <<>>], blocks, 1)
    IN  IF r.err /= "" THEN [err |-> r.err, line |-> r.line, out |-> <<>>]
        ELSE [err |-> "", line |-> 0,
              out |-> Flatten([i \in 1..maxLine |->
                          IF r.lines[i] = <<>> THEN <<>> ELSE r.lines[i] \o <<NL>>])]

\* writeShadow: maxLine lines, the blocks' lines at their source positions.
\* Nothing is written to the output before all blocks are placed.
writeShadow(blocks) ==
    IF blocks = <<>> THEN [err |-> "panic", line |-> 0, out |-> <<>>]
    ELSE LET maxLine == blocks[Len(blocks)].EndLine
         IN  IF maxLine < 0 THEN [err |-> "panic", line |-> 0, out |-> <<>>]
             ELSE LET r == placeBlocks([i \in 1..maxLine |-> <<>>], blocks, 1)
                  IN  IF r.err /= "" THEN [err |-> r.err, line |-> r.line, out |-> <<>>]
                      ELSE [err |-> "", line |-> 0,
                            out |-> Flatten([i \in 1..maxLine |-> r.lines[i] \o <<NL>>])]

\* WriteContent dispatches on the writer's mode.
WriteContent(mode, blocks) ==
    IF mode = ModePretty THEN writePretty(blocks)
    ELSE IF mode = ModeShadow THEN writeShadow(blocks)
    ELSE [err |-> "mode", line |-> 0, out |-> <<>>]

(***************************************************************************)
(* File system: files is a function from the paths of the existing regular *)
(* files to their content, dirs the set of existing directories.           *)
(***************************************************************************)
WriteFile(files, path, content) ==
    [p \in DOMAIN files \cup {path} |-> IF p = path THEN content ELSE files[p]]

\* The directory and all its ancestors (os.MkdirAll creates what is missing).
RECURSIVE Ancestors(_)
Ancestors(dir) ==
    IF dir = <<Slash>> \/ dir = Dot \/ Dir(dir) = dir THEN {dir}
    ELSE {dir} \cup Ancestors(Dir(dir))

\* os.MkdirAll fails when a path component exists as a regular file.
MkdirAllFails(files, dir) == Ancestors(dir) \cap DOMAIN files /= {}

(***************************************************************************)
(* BackupManager                                                           *)
(***************************************************************************)
\* The name of the backup of a path at clock reading stamp.
BackupPath(absFilePath, stamp) == absFilePath \o <<".", stamp>> \o BakExt

\* A backup that renames the file instead of copying it.
CreateBackupOf_Rename(files, dirs, absFilePath, stamp) ==
    IF Ancestors(Dir(absFilePath)) \cap DOMAIN files /= {}
    THEN [err |-> "backup", bkPath |-> <<>>, files |-> files]
    ELSE IF absFilePath \in dirs
    THEN [err |-> "backup", bkPath |-> <<>>,
          files |-> WriteFile(files, BackupPath(absFilePath, stamp), <<>>)]
    ELSE IF absFilePath \notin DOMAIN files
    THEN [err |-> "", bkPath |-> <<>>, files |-> files]
    ELSE [err |-> "", bkPath |-> BackupPath(absFilePath, stamp),
          files |-> [p \in (DOMAIN files \ {absFilePath})
                              \cup {BackupPath(absFilePath, stamp)} |->
                       IF p = BackupPath(absFilePath, stamp)
                       THEN files[absFilePath] ELSE files[p]]]

\* CreateBackupOf: no file, no backup and no error; otherwise the file is
\* copied to <path>.<timestamp>.bak.  os.Stat fails with another error than
\* not-exist when a component of the path is a regular file.  A directory
\* at the path is opened and the backup file created before the copy fails.
CreateBackupOf(files, dirs, absFilePath, stamp) ==
    IF Ancestors(Dir(absFilePath)) \cap DOMAIN files /= {}
    THEN [err |-> "backup", bkPath |-> <<>>, files |-> files]
    ELSE IF absFilePath \in dirs
    THEN [err |-> "backup", bkPath |-> <<>>,
          files |-> WriteFile(files, BackupPath(absFilePath, stamp), <<>>)]
    ELSE IF absFilePath \notin DOMAIN files
    THEN [err |-> "", bkPath |-> <<>>, files |-> files]
    ELSE [err |-> "", bkPath |-> BackupPath(absFilePath, stamp),
          files |-> WriteFile(files, BackupPath(absFilePath, stamp),
                              files[absFilePath])]

(***************************************************************************)
(* Transformer                                                             *)
(***************************************************************************)
\* The two extensions exchanged.
outputExt_Inverted(opts) == IF opts.NoLitLuaOutputExt THEN LitLuaLuaExt ELSE LuaExt

\* NewTransformer: the output extension the options select.
outputExt(opts) == IF ~opts.NoLitLuaOutputExt THEN LitLuaLuaExt ELSE LuaExt

\* The extension policy without the force pragma.
CleanPragmaOutputExt_IgnoreForce(opts, pragma) ==
    TrimSuffix(TrimSuffix(pragma.Output, LuaExt), LitLuaExt)
        \o (IF ~opts.NoLitLuaOutputExt THEN LitLuaLuaExt ELSE LuaExt)

\* CleanPragmaOutputExt
CleanPragmaOutputExt(opts, pragma) ==
    IF pragma.Output /= <<>> /\ pragma.Force THEN pragma.Output
    ELSE TrimSuffix(TrimSuffix(pragma.Output, LuaExt), LitLuaExt) \o outputExt(opts)

\* CleanShadowOutputExt
CleanShadowOutputExt(opts, output) == TrimSuffix(output, InputExt) \o outputExt(opts)

\* resolveTransformToAbsPath
resolveTransformToAbsPath(opts, absSrcPath, pragma) ==
    IF pragma.Output = <<>>
    THEN IF HasSuffix(absSrcPath, InputExt)
         THEN TrimSuffix(absSrcPath, InputExt) \o outputExt(opts)
         ELSE IF HasSuffix(absSrcPath, MdExt)
         THEN TrimSuffix(absSrcPath, MdExt) \o outputExt(opts)
         ELSE absSrcPath \o outputExt(opts)
    ELSE Join(Dir(absSrcPath), CleanPragmaOutputExt(opts, pragma))

\* A policy that backs up in every transformation.
BackupWanted_Always(opts) == TRUE

\* The backup policy of transform: Pretty mode, plain .lua output and
\* backups not disabled.
BackupWanted(opts) ==
    opts.WriterMode = ModePretty /\ opts.NoLitLuaOutputExt /\ ~opts.NoBackup

Failed(kind, files, dirs) ==
    [err |-> kind, path |-> <<>>, bkPath |-> <<>>, files |-> files, dirs |-> dirs]

\* The part of transform after the output path is known: backup, output
\* directory, create (truncate), header, content.  A failing step leaves
\* the effects of the steps before it.
transformWrite(opts, doc, absSource, absTransformPath, files, dirs, stamp) ==
    LET bk == IF BackupWanted(opts)
              THEN CreateBackupOf(files, dirs, absTransformPath, stamp)
              ELSE [err |-> "", bkPath |-> <<>>, files |-> files]
        outDir == Dir(absTransformPath)
        dirs2 == dirs \cup Ancestors(outDir)
        header == IF opts.WriterMode = ModePretty
                  THEN WriteHeader(absSource, stamp) ELSE <<>>
        w == WriteContent(opts.WriterMode, doc.Blocks)
    IN  IF bk.err /= "" THEN Failed("backup", bk.files, dirs)
        ELSE IF MkdirAllFails(bk.files, outDir) THEN Failed("mkdir", bk.files, dirs)
        ELSE IF absTransformPath \in dirs2 THEN Failed("create", bk.files, dirs2)
        ELSE IF w.err /= ""
             THEN Failed("write", WriteFile(bk.files, absTransformPath, header), dirs2)
        ELSE [err |-> "", path |-> absTransformPath, bkPath |-> bk.bkPath,
              files |-> WriteFile(bk.files, absTransformPath, header \o w.out),
              dirs |-> dirs2]

\* A guard that compares whole paths instead of base names.
SameBaseName_WholePath(absSource, pragma) == absSource = pragma.Output

\* The guard of transform: the output pragma names the source's base name.
SameBaseName(absSource, pragma) == Base(absSource) = Base(pragma.Output)

\* transform: source check, parse, base name guard, output path, then the
\* writes.  forcedPath is empty when the path is to be resolved.
transform(opts, nodes, absSource, forcedPath, files, dirs, stamp) ==
    IF absSource = <<>> THEN Failed("source", files, dirs)
    ELSE LET doc == ParseMarkdownDoc(nodes)
         IN  IF doc.err /= "" THEN Failed("parse", files, dirs)
             ELSE IF SameBaseName(absSource, doc.Pragmas)
             THEN Failed("samename", files, dirs)
             ELSE IF /\ forcedPath = <<>> /\ opts.RequirePragmaOutput
                     /\ doc.Pragmas.Output = <<>>
             THEN Failed("nooutput", files, dirs)
             ELSE transformWrite(opts, doc, absSource,
                      IF forcedPath /= <<>> THEN forcedPath
                      ELSE IF opts.RequirePragmaOutput
                      THEN Join(Dir(absSource), CleanPragmaOutputExt(opts, doc.Pragmas))
                      ELSE resolveTransformToAbsPath(opts, absSource, doc.Pragmas),
                      files, dirs, stamp)

\* Transform: the Pretty entry point.
Transform(opts, nodes, absSource, files, dirs, stamp) ==
    IF opts.WriterMode = ModeShadow THEN Failed("mode", files, dirs)
    ELSE IF ~HasSuffix(absSource, InputExt) THEN Failed("inputext", files, dirs)
    ELSE transform(opts, nodes, absSource, <<>>, files, dirs, stamp)

\* TransformToPath: the Shadow entry point.
TransformToPath(opts, nodes, absSource, outputPath, files, dirs, stamp) ==
    IF opts.WriterMode /= ModeShadow THEN Failed("mode", files, dirs)
    ELSE IF outputPath = <<>> THEN Failed("nopath", files, dirs)
    ELSE transform(opts, nodes, absSource, outputPath, files, dirs, stamp)

(***************************************************************************)
(* DocumentService                                                         *)
(***************************************************************************)
\* TransformOptions of the CLI (cmd/litlua) and of the document service's
\* final and shadow transformers.
CliOpts == [WriterMode |-> ModePretty, NoBackup |-> FALSE,
            RequirePragmaOutput |-> FALSE, NoLitLuaOutputExt |-> FALSE]
FinalTransformerOpts == [WriterMode |-> ModePretty, NoBackup |-> FALSE,
                         RequirePragmaOutput |-> TRUE, NoLitLuaOutputExt |-> FALSE]
ShadowTransformerOpts == [WriterMode |-> ModeShadow, NoBackup |-> TRUE,
                          RequirePragmaOutput |-> FALSE, NoLitLuaOutputExt |-> FALSE]

FileScheme == <<"f", "i", "l", "e", ":", "/", "/">>
FileSchemeRoot == <<"f", "i", "l", "e", ":", "/", "/", "/">>
PrivateSeg == <<"p", "r", "i", "v", "a", "t", "e", "/">>

\* s up to the first occurrence of character c (all of s when absent).
CutAt(s, c) ==
    IF IndexFrom(s, c, 1) = 0 THEN s ELSE SubSeq(s, 1, IndexFrom(s, c, 1) - 1)

\* URIToPath: the path component url.Parse finds: fragment and query cut
\* off, then the scheme, then the authority after "//".
URIToPath(uri) ==
    LET noFrag == CutAt(uri, "#")
        noQuery == CutAt(noFrag, "?")
        colon == IndexFrom(noQuery, ":", 1)
        rest == IF colon = 0 THEN noQuery
                ELSE SubSeq(noQuery, colon + 1, Len(noQuery))
    IN  IF HasPrefix(rest, <<Slash, Slash>>)
        THEN LET afterAuth == IndexFrom(rest, Slash, 3)
             IN  IF afterAuth = 0 THEN <<>>
                 ELSE SubSeq(rest, afterAuth, Len(rest))
        ELSE rest

\* PathToURI
PathToURI(path) == FileScheme \o path

\* The shadow path TransformShadowDoc computes for a source path.
ShadowPath(opts, root, fsPath) ==
    Join(root, Dir(fsPath) \o CleanShadowOutputExt(opts, Base(fsPath)))

\* The end of TransformShadowDoc: a failed transform is returned as an
\* error; otherwise the shadow URI is recorded for the document URI.
recordShadowURI(map, documentURI, r) ==
    IF r.err /= ""
    THEN [err |-> r.err, shadowURI |-> <<>>, map |-> map,
          files |-> r.files, dirs |-> r.dirs]
    ELSE [err |-> "", shadowURI |-> PathToURI(r.path),
          map |-> WriteFile(map, PathToURI(r.path), documentURI),
          files |-> r.files, dirs |-> r.dirs]

\* TransformShadowDoc: the shadow directory is made, the text transformed to
\* the shadow path, and the shadow URI recorded for the document URI.
TransformShadowDoc(root, map, nodes, documentURI, fls, drs, stamp) ==
    LET fsPath == URIToPath(documentURI)
        shadowPath == ShadowPath(ShadowTransformerOpts, root, fsPath)
    IN  IF MkdirAllFails(fls, Dir(shadowPath))
        THEN [err |-> "mkdir", shadowURI |-> <<>>, map |-> map,
              files |-> fls, dirs |-> drs]
        ELSE recordShadowURI(map, documentURI,
                 TransformToPath(ShadowTransformerOpts, nodes, fsPath, shadowPath,
                                 fls, drs \cup Ancestors(Dir(shadowPath)), stamp))

\* TransformFinalDoc: the final transformer's Transform of the text.
TransformFinalDoc(text, sourcePath, fls, drs, stamp) ==
    Transform(FinalTransformerOpts, text, sourcePath, fls, drs, stamp)

\* OriginalURI: the map lookup.
OriginalURI(map, shadowURI) ==
    IF shadowURI \in DOMAIN map THEN [uri |-> map[shadowURI], exists |-> TRUE]
    ELSE [uri |-> <<>>, exists |-> FALSE]

\* ShadowURI: the results the scan of the map can return (the iteration
\* order of a Go map is not fixed).
ShadowURI(map, originalURI) ==
    IF \E sh \in DOMAIN map : map[sh] = originalURI
    THEN { [uri |-> sh, exists |-> TRUE] : sh \in { x \in DOMAIN map : map[x] = originalURI } }
    ELSE { [uri |-> <<>>, exists |-> FALSE] }

\* Server.getShadowToOriginalURI: "file:///" and then "private/" are trimmed
\* from the URI, "file:///" is put back, and the result looked up.
getShadowToOriginalURI(map, shadowURI) ==
    OriginalURI(map,
        FileSchemeRoot \o TrimPrefix(TrimPrefix(shadowURI, FileSchemeRoot), PrivateSeg))

\* LuaLS.HandleResponse for textDocument/publishDiagnostics: the
\* notifications relayed to the editor (none when there is no mapping).
HandleResponse(map, uri, diagnostics) ==
    LET o == getShadowToOriginalURI(map, uri)
    IN  IF ~o.exists THEN <<>>
        ELSE << [uri |-> o.uri, diagnostics |-> diagnostics] >>

(***************************************************************************)
(* State                                                                   *)
(***************************************************************************)
VARIABLES
    files,          \* regular files on disk: path -> content
    dirs,           \* directories on disk
    now,            \* the clock, in units of 100 ms
    last,           \* the last completed operation, its inputs and results
    ops,            \* number of operations performed
    shadowRoot,     \* DocumentService.shadowRoot
    shadowMap,      \* DocumentService.shadowMap: shadow URI -> original URI
    returned,       \* history: document URI -> the shadow URI its most recent
                    \* successful TransformShadowDoc returned
    edits,          \* every didChange handled: its timer and its callback
    debounceTimer,  \* Server.debounceTimer: URI -> index of its newest timer
    lastFwd,        \* the newest didChange sent to the Lua language server
    trackRequestCount,  \* Server.trackRequestCount: method -> count
    canceled,       \* history: request IDs named by a $/cancelRequest and not
                    \* dispatched since
    batch,          \* a processDirectory call: the tree walked, the job and
                    \* result channels, the workers and what it returned
    rw              \* a reader/writer pair: its two sides and their closing

vars == <<files, dirs, now, last, ops, shadowRoot, shadowMap, returned,
          edits, debounceTimer, lastFwd, trackRequestCount, canceled, batch, rw>>

fsVars == <<files, dirs>>
docVars == <<shadowRoot, shadowMap, returned>>
lspVars == <<edits, debounceTimer, lastFwd, trackRequestCount, canceled, batch, rw>>
srvVars == <<trackRequestCount, canceled>>

(***************************************************************************)
(* Bounds                                                                  *)
(***************************************************************************)
MaxOps == 1      \* operations per behaviour of the transformer
MaxLine == 4     \* largest line number of a block position (writer)
MaxBlocks == 2   \* blocks per document (writer)

\* The clock reading as it appears in file names and headers.
Stamp(n) == IF n = 0 THEN "t0" ELSE IF n = 1 THEN "t1" ELSE IF n = 2 THEN "t2"
            ELSE IF n = 3 THEN "t3" ELSE IF n = 4 THEN "t4" ELSE "t5"

NoOp == [op |-> "init"]
NoBatch == [phase |-> "none"]
NoStream == [kind |-> "none"]

EmptyFiles == [p \in {} |-> <<>>]
EmptyMap == [u \in {} |-> <<>>]

(***************************************************************************)
(* Inputs of the transformer                                               *)
(***************************************************************************)
Foo == <<"f", "o", "o">>
Bar == <<"b", "a", "r">>
DirA == <<"/", "a">>
Old == <<"o", "l", "d">>

\* A source path from its directory (empty for the root) and its stem.
SrcOf(d, stem) == d \o <<Slash>> \o stem \o InputExt

SrcDirs == { <<>>, DirA }
Sources == { SrcOf(d, Foo) : d \in SrcDirs } \cup { DirA \o <<Slash>> \o Foo \o MdExt }

\* Values of the output pragma (empty: no output pragma).
Outputs == { <<>>, Bar \o LuaExt, Bar, Bar \o LitLuaLuaExt,
             Foo \o InputExt, <<"s", Slash>> \o Foo \o InputExt,
             <<"s", Slash>> \o Bar \o LuaExt }

\* Values of the force pragma (empty: no force pragma).
Forces == { <<>>, <<"t", "r", "u", "e">>, <<"f", "a", "l", "s", "e">>,
            <<"y", "e", "s">> }

LuaBody == <<"x", NL>>

\* A document: its pragma comments, then one fenced block of language lang.
DocText(output, force, lang) ==
    (IF output = <<>> THEN <<>> ELSE <<HtmlNode("output", output)>>)
    \o (IF force = <<>> THEN <<>> ELSE <<HtmlNode("force", force)>>)
    \o <<OtherNode(2), CodeNode(lang, LuaBody)>>

\* The documents given to the transformer: every combination of the pragma
\* values on a Lua block, and one document without a Lua block.
DocInputs ==
    { [output |-> o, force |-> f, lang |-> "lua"] : o \in Outputs, f \in Forces }
    \cup { [output |-> <<>>, force |-> <<>>, lang |-> "python"] }

\* The pretty-mode configurations: the final transformer's, and every
\* combination of the two backup switches without a required output
\* pragma (the CLI's among them).
PrettyOpts ==
    { o \in [WriterMode : {ModePretty}, NoBackup : BOOLEAN,
             RequirePragmaOutput : BOOLEAN, NoLitLuaOutputExt : BOOLEAN] :
        o.RequirePragmaOutput => o = FinalTransformerOpts }

\* Shadow options: those of the document service, and with the two backup
\* switches the other way.
ShadowOpts ==
    { ShadowTransformerOpts,
      [ShadowTransformerOpts EXCEPT !.NoBackup = FALSE, !.NoLitLuaOutputExt = TRUE] }

\* Output files that may exist before the run.
PreExisting == { DirA \o <<Slash>> \o Foo \o LitLuaLuaExt,
                 DirA \o <<Slash>> \o Bar \o LuaExt }

\* Forced output paths given to TransformToPath (empty: none given).
ForcedPaths == { <<>>, DirA \o <<Slash>> \o Foo \o LitLuaLuaExt }

(***************************************************************************)
(* Specification of the transformer: one Transform or TransformToPath on   *)
(* a disk that may already hold output files.                              *)
(***************************************************************************)
IdleDoc == shadowRoot = <<>> /\ shadowMap = EmptyMap /\ returned = EmptyMap
IdleLsp ==
    /\ edits = <<>> /\ debounceTimer = EmptyMap /\ lastFwd = EmptyMap
    /\ trackRequestCount = EmptyMap /\ canceled = {}
    /\ batch = NoBatch
    /\ rw = NoStream

InitTransformer ==
    /\ \E ex \in {{}, PreExisting} : files = [p \in ex |-> Old]
    /\ dirs = { <<Slash>>, DirA }
    /\ now = 0
    /\ last = NoOp
    /\ ops = 0
    /\ IdleDoc
    /\ IdleLsp

\* What the operation was given and what it did.
OpRecord(name, opts, output, force, lang, src, forced, r) ==
    [op |-> name, opts |-> opts, output |-> output, force |-> force,
     lang |-> lang, src |-> src, forced |-> forced,
     before |-> files, dirsBefore |-> dirs,
     err |-> r.err, path |-> r.path, bkPath |-> r.bkPath]

TransformOp ==
    /\ ops < MaxOps
    /\ \E opts \in PrettyOpts, d \in DocInputs, src \in Sources :
          \E r \in { Transform(opts, DocText(d.output, d.force, d.lang), src,
                                files, dirs, Stamp(now)) } :
              /\ files' = r.files
              /\ dirs' = r.dirs
              /\ last' = OpRecord("Transform", opts, d.output, d.force, d.lang,
                                  src, <<>>, r)
    /\ ops' = ops + 1
    /\ UNCHANGED <<now, docVars, lspVars>>

TransformToPathOp ==
    /\ ops < MaxOps
    /\ \E opts \in ShadowOpts, d \in DocInputs, src \in Sources,
          forced \in ForcedPaths :
          \E r \in { TransformToPath(opts,
                                      DocText(d.output, d.force, d.lang), src, forced,
                                      files, dirs, Stamp(now)) } :
              /\ files' = r.files
              /\ dirs' = r.dirs
              /\ last' = OpRecord("TransformToPath", opts,
                                  d.output, d.force, d.lang, src, forced, r)
    /\ ops' = ops + 1
    /\ UNCHANGED <<now, docVars, lspVars>>

NextTransformer == TransformOp \/ TransformToPathOp

SpecTransformer == InitTransformer /\ [][NextTransformer]_vars

(***************************************************************************)
(* Claims about the transformer (checked under SpecTransformer)            *)
(***************************************************************************)
ForceValid == last.force = <<>> \/ last.force \in BoolTrue \cup BoolFalse
ForceOn == last.force \in BoolTrue

\* A Pretty transformation of a document that parses, with the default
\* output extension.
PrettyDefaultRun ==
    /\ last.op = "Transform"
    /\ last.lang = "lua"
    /\ ForceValid
    /\ ~last.opts.NoLitLuaOutputExt

\* C7: for a source DIR/foo.litlua.md compiled in Pretty mode with default
\* options, no output pragma resolves to DIR/foo.litlua.lua, `output: bar.lua`
\* without force resolves to DIR/bar.litlua.lua and with `force: true` to
\* DIR/bar.lua; the last two whether or not RequirePragmaOutput is set.
OutputPathPolicy ==
    \A d \in SrcDirs :
        (PrettyDefaultRun /\ last.src = SrcOf(d, Foo)) =>
            /\ (last.output = <<>> /\ ~last.opts.RequirePragmaOutput) =>
                   /\ last.err = ""
                   /\ last.path = d \o <<Slash>> \o Foo \o LitLuaLuaExt
            /\ (last.output = Bar \o LuaExt /\ ~ForceOn) =>
                   /\ last.err = ""
                   /\ last.path = d \o <<Slash>> \o Bar \o LitLuaLuaExt
            /\ (last.output = Bar \o LuaExt /\ ForceOn) =>
                   /\ last.err = ""
                   /\ last.path = d \o <<Slash>> \o Bar \o LuaExt

OutputPathPolicyWitness ==
    /\ PrettyDefaultRun
    /\ last.src = SrcOf(DirA, Foo)
    /\ last.opts.RequirePragmaOutput
    /\ last.output = Bar \o LuaExt
    /\ ForceOn
    /\ last.path = DirA \o <<Slash>> \o Bar \o LuaExt
    /\ last.path \in DOMAIN files

\* C8: with the default output extension, a successful Pretty transform
\* whose pragmas are not `force: true` with a non-empty `output` writes a
\* path that ends in .litlua.lua.
SafetyExtension ==
    (PrettyDefaultRun /\ last.err = "" /\ ~(ForceOn /\ last.output /= <<>>)) =>
        /\ HasSuffix(last.path, LitLuaLuaExt)
        /\ last.path \in DOMAIN files

SafetyExtensionWitness ==
    /\ PrettyDefaultRun
    /\ last.err = ""
    /\ last.output = <<"s", Slash>> \o Bar \o LuaExt
    /\ ~ForceOn
    /\ HasSuffix(last.path, LitLuaLuaExt)

\* C9: whenever a Pretty compilation with the options of the CLI or of the
\* LSP final transformer overwrites an output file that already exists, a
\* backup holding the file's previous content has been created.
BackupBeforeOverwrite ==
    (/\ last.op = "Transform"
     /\ last.opts \in {CliOpts, FinalTransformerOpts}
     /\ last.err = ""
     /\ last.path \in DOMAIN last.before) =>
        /\ last.bkPath /= <<>>
        /\ last.bkPath \in DOMAIN files
        /\ files[last.bkPath] = last.before[last.path]

\* The transformation is one whose pragma output has the base name of the
\* source, of a document that parses and a source its entry point accepts.
SameNameRun ==
    /\ last.op \in {"Transform", "TransformToPath"}
    /\ last.lang = "lua"
    /\ ForceValid
    /\ last.op = "Transform" => HasSuffix(last.src, InputExt)
    /\ last.op = "TransformToPath" => last.forced /= <<>>
    /\ last.output /= <<>>
    /\ Base(last.output) = Base(last.src)

\* C10: a transformation whose pragma output has the base name of the source
\* fails with the name collision error, and nothing on disk has changed when
\* it fails: no backup, no directory, no output file created or truncated.
SelfOverwriteGuard ==
    SameNameRun =>
        /\ last.err = "samename"
        /\ files = last.before
        /\ dirs = last.dirsBefore

SelfOverwriteGuardWitness ==
    /\ SameNameRun
    /\ last.op = "Transform"
    /\ last.src = SrcOf(DirA, Foo)
    /\ last.output = <<"s", Slash>> \o Foo \o InputExt
    /\ last.opts.NoLitLuaOutputExt
    /\ last.err = "samename"

(***************************************************************************)
(* Specification of the writer: WriteContent on a document drawn from the  *)
(* documents with at most MaxBlocks blocks on lines 1..MaxLine.            *)
(***************************************************************************)
Codes == { <<"a">>, <<"a", NL>>, <<"a", NL, NL, "b">> }

\* Blocks whose position ends no earlier than it starts.
BlockSet ==
    { b \in [Code : Codes, StartLine : 1..MaxLine, EndLine : 1..MaxLine] :
          b.StartLine <= b.EndLine }

BlockSeqs == UNION { [1..n -> BlockSet] : n \in 1..MaxBlocks }

InitWriter ==
    /\ files = EmptyFiles
    /\ dirs = {}
    /\ now = 0
    /\ last = NoOp
    /\ ops = 0
    /\ IdleDoc
    /\ IdleLsp

WriteContentOp ==
    /\ last.op = "init"
    /\ \E mode \in {ModePretty, ModeShadow}, blocks \in BlockSeqs :
          LET r == WriteContent(mode, blocks)
          IN  last' = [op |-> "WriteContent", mode |-> mode, blocks |-> blocks,
                       err |-> r.err, line |-> r.line, out |-> r.out]
    /\ ops' = ops + 1
    /\ UNCHANGED <<fsVars, now, docVars, lspVars>>

\* The header, then the Pretty content, written to one output as transform
\* does.
WriteHeaderContentOp ==
    /\ last.op = "init"
    /\ \E src \in { SrcOf(DirA, Foo) }, blocks \in BlockSeqs :
          LET r == WriteContent(ModePretty, blocks)
          IN  last' = [op |-> "WriteHeader+WriteContent", mode |-> ModePretty,
                       blocks |-> blocks, src |-> src, generated |-> Stamp(now),
                       err |-> r.err, line |-> r.line,
                       out |-> WriteHeader(src, Stamp(now)) \o r.out]
    /\ ops' = ops + 1
    /\ UNCHANGED <<fsVars, now, docVars, lspVars>>

NextWriter == WriteContentOp \/ WriteHeaderContentOp

SpecWriter == InitWriter /\ [][NextWriter]_vars

\* The lines a block places: its Code split at newlines.
BlockLines(block) == Split(block.Code, NL)

\* Blocks in ascending order with non-overlapping placements: every block's
\* lines lie within its own position, and every block ends before the next
\* one starts.
WellPlaced(blocks) ==
    /\ \A k \in 1..Len(blocks) :
           blocks[k].StartLine + Len(BlockLines(blocks[k])) - 1 <= blocks[k].EndLine
    /\ \A k \in 1..(Len(blocks) - 1) : blocks[k].EndLine < blocks[k + 1].StartLine

\* The lines of an output text that ends every line with a newline.
OutLines(out) == SubSeq(Split(out, NL), 1, Len(Split(out, NL)) - 1)

MaxDocOps == 3   \* operations per behaviour of the document service

\* Shadow roots: a plain directory and one under /private.
RootTmp == <<Slash, "t", "m", "p", Slash, "w", "s">>
RootPrivate == <<Slash>> \o SubSeq(PrivateSeg, 1, 7) \o <<Slash, "w", "s">>
ShadowRoots == { RootTmp, RootPrivate }

\* Open documents: /a/b.litlua.md, /ab.litlua.md and /a/c.litlua.md.
UriAB == FileScheme \o <<Slash, "a", Slash, "b">> \o InputExt
UriRootAB == FileScheme \o <<Slash, "a", "b">> \o InputExt
UriAC == FileScheme \o <<Slash, "a", Slash, "c">> \o InputExt
DocURIs == { UriAB, UriRootAB, UriAC }

\* Document texts: two with a Lua block, one without.
TextA == <<OtherNode(1), CodeNode("lua", <<"x", NL>>)>>
TextB == <<OtherNode(2), CodeNode("lua", <<"y", NL>>)>>
TextNoLua == <<OtherNode(1)>>
Texts == { TextA, TextB, TextNoLua }

\* A URI as the Lua language server reports it when /private is a symlink
\* target of the path.
WithPrivate(uri) == FileSchemeRoot \o PrivateSeg \o TrimPrefix(uri, FileSchemeRoot)

UnknownURI == FileScheme \o <<Slash, "z", Dot, "l", "u", "a">>
DiagnosticSets == { <<>>, <<"d1">> }

InitDocs ==
    /\ shadowRoot \in ShadowRoots
    /\ shadowMap = EmptyMap
    /\ returned = EmptyMap
    /\ files = EmptyFiles
    /\ dirs = Ancestors(shadowRoot)
    /\ now = 0
    /\ last = NoOp
    /\ ops = 0
    /\ IdleLsp

\* DocumentService.TransformShadowDoc(text, uri)
TransformShadowDocOp ==
    /\ ops < MaxDocOps
    /\ \E uri \in DocURIs, text \in Texts :
        \E r \in { TransformShadowDoc(shadowRoot, shadowMap, text, uri, files, dirs,
                                    Stamp(now)) } :
            /\ files' = r.files
            /\ dirs' = r.dirs
            /\ shadowMap' = r.map
            /\ returned' = IF r.err = "" THEN WriteFile(returned, uri, r.shadowURI)
                           ELSE returned
            /\ last' = [op |-> "shadow", uri |-> uri, err |-> r.err,
                        shadowURI |-> r.shadowURI]
    /\ ops' = ops + 1
    /\ UNCHANGED <<now, shadowRoot, lspVars>>

\* LuaLS.HandleResponse on a textDocument/publishDiagnostics notification.
PublishDiagnosticsOp ==
    /\ ops < MaxDocOps
    /\ \E uri \in DOMAIN shadowMap \cup { WithPrivate(u) : u \in DOMAIN shadowMap }
                  \cup { UnknownURI },
          diagnostics \in DiagnosticSets :
        last' = [op |-> "publish", uri |-> uri, diagnostics |-> diagnostics,
                 relayed |-> HandleResponse(shadowMap, uri, diagnostics)]
    /\ ops' = ops + 1
    /\ UNCHANGED <<fsVars, now, docVars, lspVars>>

NextDocs == TransformShadowDocOp \/ PublishDiagnosticsOp

SpecDocs == InitDocs /\ [][NextDocs]_vars

\* C6: after a successful TransformShadowDoc for a document whose path has
\* directory D and base name B.litlua.md, the shadow file exists at
\* <ShadowRoot>/D/B.litlua.lua.
ShadowWorkspaceLayout ==
    (last.op = "shadow" /\ last.err = "") =>
        LET fsPath == URIToPath(last.uri)
            shadowPath == URIToPath(last.shadowURI)
        IN  /\ shadowPath = Join(shadowRoot, Dir(fsPath)) \o <<Slash>>
                            \o TrimSuffix(Base(fsPath), InputExt) \o LitLuaLuaExt
            /\ shadowPath \in DOMAIN files

\* C5: when the most recent successful TransformShadowDoc for U returned S,
\* OriginalURI(S) is (U, true) and ShadowURI(U) is (S, true).
ShadowURIRoundTrip ==
    \A u \in DOMAIN returned :
        /\ OriginalURI(shadowMap, returned[u]) = [uri |-> u, exists |-> TRUE]
        /\ ShadowURI(shadowMap, u) = { [uri |-> returned[u], exists |-> TRUE] }

\* C4: diagnostics for a shadow URI the document service knows are relayed
\* exactly once, under the original URI and with the diagnostics unchanged;
\* diagnostics for a URI the lookup finds no mapping for are not relayed.
DiagnosticsRemap ==
    last.op = "publish" =>
        /\ last.uri \in DOMAIN shadowMap =>
              last.relayed = << [uri |-> shadowMap[last.uri],
                                 diagnostics |-> last.diagnostics] >>
        /\ ~getShadowToOriginalURI(shadowMap, last.uri).exists =>
              last.relayed = <<>>

(***************************************************************************)
(* Specification of the language server: didChange notifications, their    *)
(* debounce timers and the timer callbacks, which run concurrently with    *)
(* the dispatcher and with each other.                                     *)
(***************************************************************************)
MaxEdits == 2    \* didChange notifications per behaviour

LspURIs == { UriAB, UriAC }

\* ContentChanges of a didChange: empty, or one full-document text.
ContentChanges == { <<>> } \cup { <<t>> : t \in Texts }

\* The record kept for one didChange: its parameters, the state of its timer
\* and callback (pending, stopped, transform, read, forward, done), the
\* callback's locals shadowURI and content, and the history fields
\*   superseded: a newer didChange for the URI came while the timer was pending
\*   overlap:    another callback for the same URI had fired and not finished
\*               its transform while this one was transforming or reading
\*   fwd:        number of didChange requests the callback forwarded
NewEdit(uri, changes) ==
    [uri |-> uri, changes |-> changes, st |-> "pending", shadowURI |-> <<>>,
     content |-> <<>>, superseded |-> FALSE, overlap |-> FALSE, fwd |-> 0]

\* History bookkeeping for overlap.
MarkOverlap(eds) ==
    [e \in DOMAIN eds |->
        IF /\ eds[e].st \in {"transform", "read"}
           /\ \E o \in DOMAIN eds :
                o /= e /\ eds[o].uri = eds[e].uri /\ eds[o].st = "transform"
        THEN [eds[e] EXCEPT !.overlap = TRUE]
        ELSE eds[e]]

\* A handler that leaves the existing timer running.
StopTimer_Never(eds, timers, uri) == eds

\* timer.Stop() on the URI's existing timer: it prevents the callback only
\* when the timer has not fired yet.
StopTimer(eds, timers, uri) ==
    IF uri \in DOMAIN timers /\ eds[timers[uri]].st = "pending"
    THEN [eds EXCEPT ![timers[uri]].st = "stopped"]
    ELSE eds

\* The head of Server.Handle: LoadOrStore(method, 1), then Store(count + 1).
trackRequest(counts, method) ==
    WriteFile(counts, method,
              (IF method \in DOMAIN counts THEN counts[method] ELSE 1) + 1)

\* Server.handleDebouncedChange, under the debounce mutex.
handleDebouncedChange(eds, timers, uri, changes) ==
    LET noted == IF uri \in DOMAIN timers /\ eds[timers[uri]].st = "pending"
                 THEN [eds EXCEPT ![timers[uri]].superseded = TRUE]
                 ELSE eds
    IN  [edits |-> Append(StopTimer(noted, timers, uri), NewEdit(uri, changes)),
         debounceTimer |-> WriteFile(timers, uri, Len(eds) + 1)]

Init ==
    /\ shadowRoot = RootTmp
    /\ shadowMap = EmptyMap
    /\ returned = EmptyMap
    /\ files = EmptyFiles
    /\ dirs = Ancestors(shadowRoot)
    /\ now = 0
    /\ last = NoOp
    /\ ops = 0
    /\ edits = <<>>
    /\ debounceTimer = EmptyMap
    /\ lastFwd = EmptyMap
    /\ trackRequestCount = EmptyMap
    /\ canceled = {}
    /\ batch = NoBatch
    /\ rw = NoStream

\* A handler that answers with an error.
didChangeResponse_Error == [err |-> "transform", result |-> "null"]

\* What the didChange case returns after handleDebouncedChange: nil, nil.
didChangeResponse == [err |-> "", result |-> "null"]

\* Server.Handle for textDocument/didChange on one of the given documents.
DidChangeOn(uris) ==
    /\ Len(edits) < MaxEdits
    /\ \E uri \in uris, changes \in ContentChanges :
        /\ \E r \in { handleDebouncedChange(edits, debounceTimer, uri, changes) } :
            /\ edits' = r.edits
            /\ debounceTimer' = r.debounceTimer
        /\ last' = [op |-> "textDocument/didChange", uri |-> uri,
                    err |-> didChangeResponse.err,
                    result |-> didChangeResponse.result]
    /\ trackRequestCount' = trackRequest(trackRequestCount, "textDocument/didChange")
    /\ UNCHANGED <<fsVars, now, ops, docVars, lastFwd, canceled, batch, rw>>

DidChange == DidChangeOn(LspURIs)

\* The debounce interval of a pending timer has passed: its callback starts
\* in its own goroutine. Without content changes it does nothing.
Fire(e) ==
    /\ edits[e].st = "pending"
    /\ edits' = MarkOverlap([edits EXCEPT ![e].st =
                    IF Len(edits[e].changes) > 0 THEN "transform" ELSE "done"])
    /\ UNCHANGED <<fsVars, now, last, ops, docVars, debounceTimer, lastFwd, srvVars, batch, rw>>

\* The callback's TransformShadowDoc(text, uri).
CbTransform(e) ==
    /\ edits[e].st = "transform"
    /\ \E r \in { TransformShadowDoc(shadowRoot, shadowMap, edits[e].changes[1],
                                      edits[e].uri, files, dirs, Stamp(now)) } :
           /\ files' = r.files
           /\ dirs' = r.dirs
           /\ shadowMap' = r.map
           /\ returned' = IF r.err = "" THEN WriteFile(returned, edits[e].uri, r.shadowURI)
                          ELSE returned
           /\ edits' = MarkOverlap([edits EXCEPT
                          ![e].st = IF r.err = "" THEN "read" ELSE "done",
                          ![e].shadowURI = r.shadowURI])
    /\ UNCHANGED <<now, last, ops, shadowRoot, debounceTimer, lastFwd, srvVars, batch, rw>>

\* The callback's URIToPath and os.ReadFile of the shadow file.
CbRead(e) ==
    /\ edits[e].st = "read"
    /\ LET fsPath == URIToPath(edits[e].shadowURI)
       IN  edits' = MarkOverlap(
                IF fsPath \in DOMAIN files
                THEN [edits EXCEPT ![e].st = "forward", ![e].content = files[fsPath]]
                ELSE [edits EXCEPT ![e].st = "done"])
    /\ UNCHANGED <<fsVars, now, last, ops, docVars, debounceTimer, lastFwd, srvVars, batch, rw>>

\* The callback's ForwardRequest of textDocument/didChange for the shadow
\* URI with the content read back.
CbForward(e) ==
    /\ edits[e].st = "forward"
    /\ lastFwd' = WriteFile(lastFwd, edits[e].shadowURI,
                            [edit |-> e, text |-> edits[e].content])
    /\ edits' = [edits EXCEPT ![e].st = "done", ![e].fwd = @ + 1]
    /\ UNCHANGED <<fsVars, now, last, ops, docVars, debounceTimer, srvVars, batch, rw>>

Next ==
    \/ DidChange
    \/ \E e \in DOMAIN edits : Fire(e)
    \/ \E e \in DOMAIN edits : CbTransform(e)
    \/ \E e \in DOMAIN edits : CbRead(e)
    \/ \E e \in DOMAIN edits : CbForward(e)

Spec == Init /\ [][Next]_vars

\* The texts with a Lua block and their shadow renderings.
LuaTexts == { TextA, TextB }
RenderingA == WriteContent(ModeShadow, ParseMarkdownDoc(TextA).Blocks).out
RenderingB == WriteContent(ModeShadow, ParseMarkdownDoc(TextB).Blocks).out
ShadowRendering(text) ==
    IF text = TextA THEN RenderingA ELSE IF text = TextB THEN RenderingB ELSE <<>>

LatestEditWins ==
    \A uri \in DOMAIN debounceTimer :
        LET e == debounceTimer[uri]
        IN  (edits[e].st = "done" /\ edits[e].fwd = 1) =>
                /\ files[URIToPath(edits[e].shadowURI)]
                       = ShadowRendering(edits[e].changes[1])
                /\ lastFwd[edits[e].shadowURI].edit = e

(***************************************************************************)
(* Specification of the request dispatcher: Server.Handle on requests      *)
(* dispatched one after the other, no debounce timer pending.              *)
(***************************************************************************)
MaxRequests == 3   \* requests dispatched per behaviour

LitLuaLuaName == SubSeq(LitLuaLuaExt, 2, Len(LitLuaLuaExt))   \* "litlua.lua"

\* The built-in default shadow root (<tempdir>/litlua-workspace).
DefaultShadowRoot == RootTmp

\* p lies below directory root.
Under(root, p) == HasPrefix(p, root \o <<Slash>>)

\* A cleanup that does not look at the shadow root.
CleanupShadowFiles_Always(root, fls, drs) ==
    [p \in { q \in DOMAIN fls :
               ~(Under(root, q) /\ HasSuffix(Base(q), LitLuaLuaName)) } |-> fls[p]]

\* DocumentService.CleanupShadowFiles: nothing for a root other than the
\* default; otherwise the walk of the root removes every entry that is not
\* a directory and whose name ends in "litlua.lua".  The files left.
CleanupShadowFiles(root, fls, drs) ==
    IF root /= DefaultShadowRoot THEN fls
    ELSE [p \in { q \in DOMAIN fls :
                    ~(Under(root, q) /\ HasSuffix(Base(q), LitLuaLuaName)) } |-> fls[p]]

\* Every document is accepted.
SupportedDocument_Any(uri) == TRUE

\* The file-type test of didOpen.
SupportedDocument(uri) == HasSuffix(uri, InputExt)

\* The end of didOpen: the shadow file is read back and a didOpen for the
\* shadow URI is forwarded; a failed transform or read is returned.
forwardDidOpen(r) ==
    IF r.err /= ""
    THEN [err |-> r.err, forwarded |-> <<>>, map |-> r.map, files |-> r.files,
          dirs |-> r.dirs]
    ELSE IF URIToPath(r.shadowURI) \notin DOMAIN r.files
    THEN [err |-> "read", forwarded |-> <<>>, map |-> r.map, files |-> r.files,
          dirs |-> r.dirs]
    ELSE [err |-> "",
          forwarded |-> << [method |-> "textDocument/didOpen", uri |-> r.shadowURI,
                            text |-> r.files[URIToPath(r.shadowURI)]] >>,
          map |-> r.map, files |-> r.files, dirs |-> r.dirs]

\* Server.Handle, case textDocument/didOpen.
didOpen(root, map, uri, text, fls, drs, stamp) ==
    IF ~SupportedDocument(uri)
    THEN [err |-> "InvalidRequest", forwarded |-> <<>>, map |-> map,
          files |-> fls, dirs |-> drs]
    ELSE forwardDidOpen(TransformShadowDoc(root, map, text, uri, fls, drs, stamp))

\* Requests: documents opened, request IDs, and a method Handle passes on.
UriMd == FileScheme \o <<Slash, "a", Slash, "b">> \o MdExt
OpenURIs == { UriAB, UriRootAB, UriMd }
OpenTexts == { TextA, TextNoLua }
RequestIDs == { 1, 2 }
ReferencesMethod == "textDocument/references"

\* The disk before the server starts: a compiled output next to its source,
\* and in the shadow root a stale shadow file, a file of another kind and a
\* directory with a shadow-like name holding a stale shadow file; a file
\* whose path only begins like the shadow root.
SavedAB == DocText(Bar \o LuaExt, <<>>, "lua")
SavedRootAB == DocText(<<>>, <<>>, "lua")

DiskOf(root) ==
    LET stale == <<"o">> \o LitLuaLuaExt
    IN  [p \in { <<Slash, "a", Slash, "b">> \o LitLuaLuaExt,
                 root \o <<Slash>> \o stale,
                 root \o <<Slash, "k", ".", "t", "x", "t">>,
                 root \o <<Slash, "d">> \o LitLuaLuaExt \o <<Slash>> \o stale,
                 root \o <<"x">> \o LitLuaLuaExt } |-> Old]
    @@ (URIToPath(UriAB) :> SavedAB) @@ (URIToPath(UriRootAB) :> SavedRootAB)

DirsOf(root) ==
    Ancestors(root) \cup { <<Slash, "a">>, root \o <<Slash, "d">> \o LitLuaLuaExt }

InitServer ==
    /\ shadowRoot \in ShadowRoots
    /\ shadowMap = EmptyMap
    /\ returned = EmptyMap
    /\ \/ files = EmptyFiles /\ dirs = Ancestors(shadowRoot)
       \/ files = DiskOf(shadowRoot) /\ dirs = DirsOf(shadowRoot)
    /\ now = 0
    /\ last = NoOp
    /\ ops = 0
    /\ IdleLsp

\* Server.Handle for textDocument/didOpen.
DidOpen ==
    /\ ops < MaxRequests
    /\ \E uri \in OpenURIs, text \in OpenTexts :
        \E r \in { didOpen(shadowRoot, shadowMap, uri, text, files, dirs, Stamp(now)) } :
            /\ files' = r.files
            /\ dirs' = r.dirs
            /\ shadowMap' = r.map
            /\ last' = [op |-> "textDocument/didOpen", id |-> 0, uri |-> uri,
                        err |-> r.err, forwarded |-> r.forwarded,
                        wasCanceled |-> FALSE]
    /\ trackRequestCount' = trackRequest(trackRequestCount, "textDocument/didOpen")
    /\ ops' = ops + 1
    /\ UNCHANGED <<now, shadowRoot, returned, edits, debounceTimer, lastFwd, canceled, batch, rw>>

\* Server.Handle for $/cancelRequest: one of the ignored methods.
CancelRequest ==
    /\ ops < MaxRequests
    /\ \E id \in RequestIDs :
        /\ last' = [op |-> "$/cancelRequest", id |-> id, uri |-> <<>>, err |-> "",
                    forwarded |-> <<>>, wasCanceled |-> FALSE]
        /\ canceled' = canceled \cup {id}
    /\ trackRequestCount' = trackRequest(trackRequestCount, "$/cancelRequest")
    /\ ops' = ops + 1
    /\ UNCHANGED <<fsVars, now, docVars, edits, debounceTimer, lastFwd, batch, rw>>

\* Server.Handle for a request with an ID and a method of the default
\* branch: it is passed on to the Lua language server.
ForwardedRequest ==
    /\ ops < MaxRequests
    /\ \E id \in RequestIDs :
        /\ last' = [op |-> ReferencesMethod, id |-> id, uri |-> <<>>, err |-> "",
                    forwarded |-> << [method |-> ReferencesMethod, uri |-> <<>>,
                                      text |-> <<>>] >>,
                    wasCanceled |-> id \in canceled]
        /\ canceled' = canceled \ {id}
    /\ trackRequestCount' = trackRequest(trackRequestCount, ReferencesMethod)
    /\ ops' = ops + 1
    /\ UNCHANGED <<fsVars, now, docVars, edits, debounceTimer, lastFwd, batch, rw>>

\* Server.Handle for shutdown: the shadow files are cleaned up.
Shutdown ==
    /\ ops < MaxRequests
    /\ files' = CleanupShadowFiles(shadowRoot, files, dirs)
    /\ last' = [op |-> "shutdown", id |-> 0, uri |-> <<>>, err |-> "",
                forwarded |-> <<>>, wasCanceled |-> FALSE]
    /\ trackRequestCount' = trackRequest(trackRequestCount, "shutdown")
    /\ ops' = ops + 1
    /\ UNCHANGED <<dirs, now, docVars, edits, debounceTimer, lastFwd, canceled, batch, rw>>

\* The textDocument/didSave branch of Server.Handle with a failure that
\* drops the document's mapping (a variant that is not the code's).
didSave_DropsMapping(map, uri, fls, drs, stamp) ==
    { IF ~s.exists
      THEN [err |-> "noshadow", map |-> map, files |-> fls, dirs |-> drs]
      ELSE IF ~OriginalURI(map, s.uri).exists
      THEN [err |-> "nooriginal", map |-> map, files |-> fls, dirs |-> drs]
      ELSE IF URIToPath(OriginalURI(map, s.uri).uri) \notin DOMAIN fls
      THEN [err |-> "read", map |-> EmptyMap, files |-> fls, dirs |-> drs]
      ELSE LET path == URIToPath(OriginalURI(map, s.uri).uri)
               r == TransformFinalDoc(fls[path], path, fls, drs, stamp)
           IN  [err |-> r.err, map |-> IF r.err = "" THEN map ELSE EmptyMap,
                files |-> r.files, dirs |-> r.dirs]
      : s \in ShadowURI(map, uri) }

\* The textDocument/didSave branch of Server.Handle: the shadow URI of the
\* document, the original URI behind it, its path, the file read from disk,
\* and the final transformation of what was read.  One result for each
\* shadow URI the lookup can return.
didSave(map, uri, fls, drs, stamp) ==
    { IF ~s.exists
      THEN [err |-> "noshadow", map |-> map, files |-> fls, dirs |-> drs]
      ELSE IF ~OriginalURI(map, s.uri).exists
      THEN [err |-> "nooriginal", map |-> map, files |-> fls, dirs |-> drs]
      ELSE IF URIToPath(OriginalURI(map, s.uri).uri) \notin DOMAIN fls
      THEN [err |-> "read", map |-> map, files |-> fls, dirs |-> drs]
      ELSE LET path == URIToPath(OriginalURI(map, s.uri).uri)
               r == TransformFinalDoc(fls[path], path, fls, drs, stamp)
           IN  [err |-> r.err, map |-> map, files |-> r.files, dirs |-> r.dirs]
      : s \in ShadowURI(map, uri) }

\* Server.Handle for textDocument/didSave.
DidSave ==
    /\ ops < MaxRequests
    /\ \E uri \in OpenURIs :
        \E r \in didSave(shadowMap, uri, files, dirs, Stamp(now)) :
            /\ files' = r.files
            /\ dirs' = r.dirs
            /\ shadowMap' = r.map
            /\ last' = [op |-> "textDocument/didSave", id |-> 0, uri |-> uri,
                        err |-> r.err, forwarded |-> <<>>, wasCanceled |-> FALSE]
    /\ trackRequestCount' = trackRequest(trackRequestCount, "textDocument/didSave")
    /\ ops' = ops + 1
    /\ UNCHANGED <<now, shadowRoot, returned, edits, debounceTimer, lastFwd, canceled, batch, rw>>

NextServer == DidOpen \/ CancelRequest \/ ForwardedRequest \/ Shutdown \/ DidSave

SpecServer == InitServer /\ [][NextServer]_vars

\* A step of SpecServer that dispatched the named method.
Dispatched(method) == ops' = ops + 1 /\ last'.op = method

\* C11: a didOpen whose URI does not end in .litlua.md is answered with an
\* invalid-request error and has no other effect: no file or directory is
\* written, the shadow map keeps its entries and nothing is forwarded.
DidOpenUnsupportedRejected ==
    [][ (Dispatched("textDocument/didOpen") /\ ~HasSuffix(last'.uri, InputExt))
        => /\ last'.err = "InvalidRequest"
           /\ last'.forwarded = <<>>
           /\ UNCHANGED <<files, dirs, shadowMap>> ]_vars

\* The case of C11: a document of another type was refused after a LitLua
\* document had been opened and mapped.
DidOpenUnsupportedRejectedWitness ==
    /\ last.op = "textDocument/didOpen"
    /\ last.uri = UriMd
    /\ last.err = "InvalidRequest"
    /\ DOMAIN shadowMap /= {}

\* C12: the first request dispatched with ID X after a $/cancelRequest naming
\* X is skipped: nothing is forwarded for it.
CanceledRequestSkipped ==
    (last.op = ReferencesMethod /\ last.wasCanceled) => last.forwarded = <<>>

\* C13: a cleanup deletes nothing when the shadow root is not the built-in
\* default; otherwise every file it deletes lies under the shadow root and
\* has a name ending in litlua.lua, and the files it leaves keep their
\* content.
CleanupOnlyOwnShadowFiles ==
    [][ Dispatched("shutdown")
        => /\ shadowRoot /= DefaultShadowRoot => files' = files
           /\ DOMAIN files' \subseteq DOMAIN files
           /\ \A p \in DOMAIN files' : files'[p] = files[p]
           /\ \A p \in DOMAIN files \ DOMAIN files' :
                /\ Under(shadowRoot, p)
                /\ HasSuffix(Base(p), LitLuaLuaName) ]_vars

\* The case of C13: a cleanup of the default root removed the stale shadow
\* files and left the compiled output outside the root, the file of another
\* kind inside it and the file whose path only begins like the root.
CleanupOnlyOwnShadowFilesWitness ==
    /\ last.op = "shutdown"
    /\ shadowRoot = DefaultShadowRoot
    /\ shadowRoot \o <<Slash, "o">> \o LitLuaLuaExt \notin DOMAIN files
    /\ <<Slash, "a", Slash, "b">> \o LitLuaLuaExt \in DOMAIN files
    /\ shadowRoot \o <<Slash, "k", ".", "t", "x", "t">> \in DOMAIN files
    /\ shadowRoot \o <<"x">> \o LitLuaLuaExt \in DOMAIN files

(***************************************************************************)
(* CLI Processor: findFiles and the worker pool of processDirectory        *)
(***************************************************************************)
maxFiles == 100
maxWorkers == 4
fileExtension == InputExt

MaxBatchFiles == 3   \* files of a batch whose workers are explored

\* A directory tree is the sequence of its entries in the order
\* filepath.Walk visits them (lexical within a directory), the root first.
\* ignored is the verdict of the gitignore matcher on the entry.
Entry(path, isDir, ignored) == [path |-> path, isDir |-> isDir, ignored |-> ignored]

DotGit == <<".", "g", "i", "t">>

\* A count test that lets one file more through.
limitReached_Late(n) == n > maxFiles

\* The count test of the walk callback.
limitReached(n) == n >= maxFiles

\* The walk of findFiles.  usePatterns: a .git entry exists in the root, so
\* that the ignore patterns are consulted.  An entry is not visited below a
\* directory answered with SkipDir; the callback on the k-th document it
\* keeps sees the k - 1 documents kept before it.
walkFiles(tree, usePatterns) ==
    LET skipped(e) == usePatterns /\ \E i \in 1..Len(tree) :
                         /\ tree[i].isDir /\ tree[i].ignored
                         /\ Under(tree[i].path, e.path)
        kept(e) == /\ ~skipped(e)
                   /\ ~(usePatterns /\ e.ignored)
                   /\ ~e.isDir /\ HasSuffix(e.path, fileExtension)
        docs == SelectSeq(tree, kept)
    IN  IF \E k \in 1..Len(docs) : limitReached(k - 1)
        THEN [err |-> "limit", files |-> <<>>]
        ELSE [err |-> "", files |-> [k \in 1..Len(docs) |-> docs[k].path]]

\* Processor.findFiles.
findFiles(root, tree) ==
    \* os.Stat(root/.git)
    LET hasGit == \E i \in 1..Len(tree) : tree[i].path = Join(root, DotGit)
        w == walkFiles(tree, hasGit)
    IN  IF w.err /= "" THEN w
        ELSE IF Len(w.files) = 0 THEN [err |-> "nofiles", files |-> <<>>]
        ELSE w

\* Processor.processFile on an absolute path.  Its ProcessResult, and the
\* disk it leaves.
processFile(path, fls, drs, stamp) ==
    IF ~HasSuffix(path, fileExtension)
    THEN [Path |-> path, OutPath |-> <<>>, Error |-> "extension",
          files |-> fls, dirs |-> drs]
    ELSE IF path \notin DOMAIN fls
    THEN [Path |-> path, OutPath |-> <<>>, Error |-> "read",
          files |-> fls, dirs |-> drs]
    ELSE LET r == Transform(CliOpts, fls[path], path, fls, drs, stamp)
         IN  [Path |-> path, OutPath |-> r.path, Error |-> r.err,
              files |-> r.files, dirs |-> r.dirs]

\* filepath.Rel for a path below root.
Rel(root, path) == SubSeq(path, Len(root) + 2, Len(path))

\* A drain that returns the successes whatever failed.
drainResults_Lenient(root, results) ==
    LET good(r) == r.Error = ""
        ok == SelectSeq(results, good)
    IN  [err |-> "", count |-> 0,
         results |-> [i \in 1..Len(ok) |->
                        [Path |-> Rel(root, ok[i].Path),
                         OutPath |-> Rel(root, ok[i].OutPath)]]]

\* The drain of the result channel at the end of processDirectory: the
\* summary error as soon as one result carries an error, else the
\* successes with paths relative to the root.
drainResults(root, results) ==
    LET good(r) == r.Error = ""
        bad(r) == r.Error /= ""
        ok == SelectSeq(results, good)
    IN  IF Len(SelectSeq(results, bad)) > 0
        THEN [err |-> "summary", count |-> Len(SelectSeq(results, bad)),
              results |-> <<>>]
        ELSE [err |-> "", count |-> 0,
              results |-> [i \in 1..Len(ok) |->
                             [Path |-> Rel(root, ok[i].Path),
                              OutPath |-> Rel(root, ok[i].OutPath)]]]

(***************************************************************************)
(* Specification of the CLI Processor: one processDirectory call.          *)
(***************************************************************************)
Workers == 1..maxWorkers

RootD == <<Slash, "d">>
InRoot(name) == RootD \o <<Slash>> \o name
FileG == InRoot(<<"g">> \o InputExt)
FileN == InRoot(<<"n">> \o InputExt)
FileR == InRoot(<<"r">> \o MdExt)
DirS == InRoot(<<"s">>)
FileH == DirS \o <<Slash, "h">> \o InputExt
FileM == DirS \o <<Slash, "m">> \o InputExt
FileK == DirS \o <<Slash, "k">> \o InputExt
DirGit == InRoot(DotGit)
FileC == DirGit \o <<Slash, "c">> \o InputExt

\* LitLua documents of the tree: g, h and k have a Lua block, n and m none;
\* h and k name the same output file in their output pragmas.
Candidates == { FileG, FileN, FileH, FileM, FileK }
ContentOf(path) ==
    IF path \in { FileG, FileC } THEN TextA
    ELSE IF path \in { FileH, FileK } THEN DocText(Bar \o LuaExt, <<>>, "lua")
    ELSE IF path \in { FileN, FileM } THEN TextNoLua
    ELSE Old

\* The tree with the chosen documents, with or without a .git directory;
\* .gitignore names n.litlua.md.
SmallTree(chosen, git) ==
    LET all == << Entry(RootD, TRUE, FALSE), Entry(DirGit, TRUE, TRUE),
                  Entry(FileC, FALSE, FALSE), Entry(FileG, FALSE, FALSE),
                  Entry(FileN, FALSE, TRUE), Entry(FileR, FALSE, FALSE),
                  Entry(DirS, TRUE, FALSE), Entry(FileH, FALSE, FALSE),
                  Entry(FileK, FALSE, FALSE), Entry(FileM, FALSE, FALSE) >>
        present(e) == \/ e.path \in chosen \cup { RootD, FileR, DirS }
                      \/ git /\ e.path \in { DirGit, FileC }
    IN  SelectSeq(all, present)

Digits == <<"0", "1", "2", "3", "4", "5", "6", "7", "8", "9">>
NumName(i) == << Digits[(i \div 100) + 1], Digits[((i \div 10) % 10) + 1],
                 Digits[(i % 10) + 1] >>

\* A flat tree of n LitLua documents 000.litlua.md, 001.litlua.md, ...
BigTree(n) ==
    <<Entry(RootD, TRUE, FALSE)>> \o
    [i \in 1..n |-> Entry(InRoot(NumName(i - 1) \o InputExt), FALSE, FALSE)]

Trees ==
    { SmallTree(chosen, git) :
        chosen \in { c \in SUBSET Candidates : Cardinality(c) <= MaxBatchFiles },
        git \in BOOLEAN }
    \cup { BigTree(maxFiles), BigTree(maxFiles + 1) }

FilesOf(tree) ==
    [p \in { tree[i].path : i \in { j \in 1..Len(tree) : ~tree[j].isDir } }
       |-> ContentOf(p)]
DirsOfTree(tree) ==
    { <<Slash>> } \cup { tree[i].path : i \in { j \in 1..Len(tree) : tree[j].isDir } }

NoReturn == [err |-> "pending", count |-> 0, results |-> <<>>]

InitProcessor ==
    /\ \E tree \in Trees :
        /\ batch = [phase |-> "start", root |-> RootD, tree |-> tree,
                    found |-> <<>>, jobs |-> <<>>,
                    held |-> [w \in Workers |-> <<>>],
                    results |-> <<>>, ret |-> NoReturn]
        /\ files = FilesOf(tree)
        /\ dirs = DirsOfTree(tree)
    /\ now = 0
    /\ last = NoOp
    /\ ops = 0
    /\ IdleDoc
    /\ edits = <<>> /\ debounceTimer = EmptyMap /\ lastFwd = EmptyMap
    /\ trackRequestCount = EmptyMap /\ canceled = {}
    /\ rw = NoStream

batchOther == <<now, last, ops, docVars, edits, debounceTimer, lastFwd,
                trackRequestCount, canceled, rw>>

\* processDirectory up to the start of the workers: findFiles, and its
\* error returned at once; else every path found is put on the job channel.
FindFiles ==
    /\ batch.phase = "start"
    /\ \E r \in { findFiles(batch.root, batch.tree) } :
        batch' = IF r.err /= ""
                 THEN [batch EXCEPT !.phase = "returned",
                                    !.ret = [err |-> r.err, count |-> 0,
                                             results |-> <<>>]]
                 ELSE [batch EXCEPT !.phase = "running", !.found = r.files,
                                    !.jobs = r.files]
    /\ UNCHANGED <<fsVars, batchOther>>

\* A worker receives the next path from the job channel.
TakeJob(w) ==
    /\ batch.phase = "running"
    /\ Len(batch.found) <= MaxBatchFiles
    /\ batch.held[w] = <<>>
    /\ batch.jobs /= <<>>
    /\ batch' = [batch EXCEPT !.held[w] = Head(batch.jobs),
                              !.jobs = Tail(batch.jobs)]
    /\ UNCHANGED <<fsVars, batchOther>>

\* A worker runs processFile on its path and sends the ProcessResult.
ProcessJob(w) ==
    /\ batch.phase = "running"
    /\ batch.held[w] /= <<>>
    /\ \E r \in { processFile(batch.held[w], files, dirs, Stamp(now)) } :
        /\ files' = r.files
        /\ dirs' = r.dirs
        /\ batch' = [batch EXCEPT
                        !.held[w] = <<>>,
                        !.results = Append(@, [Path |-> r.Path,
                                               OutPath |-> r.OutPath,
                                               Error |-> r.Error])]
    /\ UNCHANGED batchOther

\* A result channel closed as soon as the job channel is empty, without
\* waiting for the workers (a variant that is not the code's).
ReturnBatch_NoWait ==
    /\ batch.phase = "running"
    /\ batch.jobs = <<>>
    /\ batch' = [batch EXCEPT !.phase = "returned",
                              !.held = [w \in Workers |-> <<>>],
                              !.ret = drainResults(batch.root, batch.results)]
    /\ UNCHANGED <<fsVars, batchOther>>

\* The job channel is drained and every worker has left its loop: the
\* result channel is closed and processDirectory returns.
ReturnBatch ==
    /\ batch.phase = "running"
    /\ batch.jobs = <<>>
    /\ \A w \in Workers : batch.held[w] = <<>>
    /\ batch' = [batch EXCEPT !.phase = "returned",
                              !.ret = drainResults(batch.root, batch.results)]
    /\ UNCHANGED <<fsVars, batchOther>>

NextProcessor ==
    \/ FindFiles
    \/ \E w \in Workers : TakeJob(w)
    \/ \E w \in Workers : ProcessJob(w)
    \/ ReturnBatch

SpecProcessor == InitProcessor /\ [][NextProcessor]_vars

\* What a ProcessJob step of worker w does to the batch, whatever
\* processFile returns: the worker gives up its path and one ProcessResult
\* for that path is sent, and the disk is changed or not.  Within
\* NextProcessor the steps of this kind are the ProcessJob steps, and both
\* are possible in the same states.
ProcessStep(w) ==
    /\ batch.phase = "running"
    /\ batch.held[w] /= <<>>
    /\ \/ /\ batch' = [batch EXCEPT !.held[w] = <<>>,
                                    !.results = Append(@, [Path |-> batch.held[w],
                                                           OutPath |-> <<>>,
                                                           Error |-> "read"])]
          /\ UNCHANGED fsVars
          /\ UNCHANGED batchOther
       \/ /\ batch'.held[w] = <<>>
          /\ Len(batch'.results) = Len(batch.results) + 1

\* The goroutines of processDirectory are scheduled fairly: a worker that
\* can receive a path or has one to process does so, and the results are
\* drained once the workers are done.
FairProcessor ==
    /\ SpecProcessor
    /\ WF_vars(\E w \in Workers : TakeJob(w))
    /\ WF_vars(\E w \in Workers : ProcessStep(w))
    /\ WF_vars(ReturnBatch)

\* The paths a sequence holds.
Range(seq) == { seq[i] : i \in 1..Len(seq) }

\* C14: when processDirectory returns after its workers ran, every file
\* found has produced exactly one ProcessResult, whatever failed; the
\* summary error is returned iff some result carries an error, and then no
\* result list is returned; otherwise one result per file is returned.
BatchFailureIsolation ==
    (batch.phase = "returned" /\ batch.found /= <<>>)
    => /\ Len(batch.results) = Len(batch.found)
       /\ { r.Path : r \in Range(batch.results) } = Range(batch.found)
       /\ batch.ret.err = "summary" <=> \E r \in Range(batch.results) : r.Error /= ""
       /\ batch.ret.err = "summary" => batch.ret.results = <<>>
       /\ batch.ret.err /= "summary" =>
            /\ batch.ret.err = ""
            /\ Len(batch.ret.results) = Len(batch.found)

\* The case of C14: a batch returned the summary error after one file
\* failed and another was transformed and written.
BatchFailureIsolationWitness ==
    /\ batch.phase = "returned"
    /\ batch.ret.err = "summary"
    /\ \E r \in Range(batch.results) : r.Error /= ""
    /\ \E r \in Range(batch.results) : r.Error = "" /\ r.OutPath \in DOMAIN files

\* The LitLua documents of a tree that the ignore rules leave.
Qualifying(root, tree) ==
    LET E == Range(tree)
        hasGit == \E e \in E : e.path = Join(root, DotGit)
        dropped(e) == hasGit /\ (e.ignored \/ \E d \in E :
                                    d.isDir /\ d.ignored /\ Under(d.path, e.path))
    IN  { e.path : e \in { x \in E : /\ ~x.isDir
                                      /\ HasSuffix(x.path, fileExtension)
                                      /\ ~dropped(x) } }

\* C15: on a tree with more than 100 qualifying files findFiles fails with
\* the limit error and processDirectory returns it with no file handed to a
\* worker and the disk untouched; on a tree with exactly 100 findFiles
\* succeeds and returns all 100.
FileCountCeiling ==
    batch.phase \notin { "none", "start" } =>
        LET q == Qualifying(batch.root, batch.tree)
        IN  /\ Cardinality(q) > maxFiles =>
                /\ batch.phase = "returned"
                /\ batch.ret.err = "limit"
                /\ batch.found = <<>> /\ batch.jobs = <<>> /\ batch.results = <<>>
                /\ files = FilesOf(batch.tree)
            /\ Cardinality(q) = maxFiles =>
                /\ batch.ret.err /= "limit"
                /\ Len(batch.found) = maxFiles
                /\ Range(batch.found) = q

\* The case of C15: the call on the tree of 101 documents has returned the
\* limit error.
FileCountCeilingWitness ==
    /\ batch.phase = "returned"
    /\ batch.ret.err = "limit"
    /\ Cardinality(Qualifying(batch.root, batch.tree)) = maxFiles + 1

(***************************************************************************)
(* Specification of the parser: one ParseMarkdownDoc on a document given   *)
(* as its sequence of block nodes.                                         *)
(***************************************************************************)
MaxNodes == 3   \* block nodes per document

\* An HTML block that is not of the comment type (<div>, <img ...>).
HtmlOtherNode ==
    [kind |-> "html", comment |-> FALSE, match |-> FALSE, key |-> "",
     value |-> <<>>, lang |-> "", body |-> <<>>, span |-> 1]

\* A comment block that pragmaRegex does not match.
PlainComment ==
    [kind |-> "html", comment |-> TRUE, match |-> FALSE, key |-> "",
     value |-> <<>>, lang |-> "", body |-> <<>>, span |-> 1]

OutA == <<"a">> \o LuaExt
OutB == <<"b">> \o LuaExt
NotABool == <<"n", "o">>

ParserNodes ==
    { HtmlNode("output", OutA), HtmlNode("output", OutB),
      HtmlNode("debug", <<"t", "r", "u", "e">>), HtmlNode("debug", NotABool),
      HtmlNode("force", <<"1">>), HtmlNode("force", NotABool),
      HtmlNode("title", OutA), PlainComment, HtmlOtherNode, OtherNode(1),
      CodeNode("lua", <<"x", NL>>), CodeNode("lua", <<"y", NL, "z", NL>>),
      CodeNode("lua", <<>>), CodeNode("go", <<"x", NL>>),
      CodeNode("Lua", <<"x", NL>>), CodeNode("", <<"x", NL>>) }

NodeSeqs == UNION { [1..n -> ParserNodes] : n \in 1..MaxNodes }

NoDocument == [Pragmas |-> NoPragma, Blocks |-> <<>>]

InitParser ==
    /\ files = EmptyFiles
    /\ dirs = {}
    /\ now = 0
    /\ last = NoOp
    /\ ops = 0
    /\ IdleDoc
    /\ IdleLsp

\* ParseMarkdownDoc: the Document, or nil with the error.
ParseMarkdownDocOp ==
    /\ last.op = "init"
    /\ \E nodes \in NodeSeqs :
        \E r \in { ParseMarkdownDoc(nodes) } :
            last' = [op |-> "ParseMarkdownDoc", nodes |-> nodes, err |-> r.err,
                     doc |-> IF r.err /= "" THEN NoDocument
                             ELSE [Pragmas |-> r.Pragmas, Blocks |-> r.Blocks]]
    /\ ops' = ops + 1
    /\ UNCHANGED <<fsVars, now, docVars, lspVars>>

NextParser == ParseMarkdownDocOp

SpecParser == InitParser /\ [][NextParser]_vars

Parsed == last.op = "ParseMarkdownDoc"

IsComment(n) == n.kind = "html" /\ n.comment
IsPragma(n) == IsComment(n) /\ n.match

\* The preamble of a document: the nodes before the first one that is not
\* an HTML-comment block.
Preamble(nodes) ==
    LET stops == { i \in 1..Len(nodes) : ~IsComment(nodes[i]) }
    IN  IF stops = {} THEN nodes
        ELSE SubSeq(nodes, 1, (CHOOSE i \in stops : \A j \in stops : i <= j) - 1)

\* The value the last pragma comment of seq with the given key carries.
LastValue(seq, key, default) ==
    LET at == { i \in 1..Len(seq) : IsPragma(seq[i]) /\ seq[i].key = key }
    IN  IF at = {} THEN default
        ELSE seq[CHOOSE i \in at : \A j \in at : j <= i].value

\* C16: the Pragmas of a parsed Document are those of the pragma comments of
\* the preamble, the last value of a key winning; a pragma comment after the
\* first node that is not an HTML-comment block changes nothing.
PragmaCutoff ==
    (Parsed /\ last.err = "") =>
        LET pre == Preamble(last.nodes)
        IN  /\ last.doc.Pragmas.Output = LastValue(pre, "output", <<>>)
            /\ last.doc.Pragmas.Debug = (LastValue(pre, "debug", <<"0">>) \in BoolTrue)
            /\ last.doc.Pragmas.Force = (LastValue(pre, "force", <<"0">>) \in BoolTrue)

\* C17: a pragma comment of the preamble with key debug or force and a value
\* that is no boolean makes ParseMarkdownDoc return an error and no
\* Document, whatever follows; the walk has collected no block by then.
InvalidBooleanPragma ==
    (/\ Parsed
     /\ \E i \in 1..Len(Preamble(last.nodes)) :
          /\ IsPragma(last.nodes[i])
          /\ last.nodes[i].key \in { "debug", "force" }
          /\ last.nodes[i].value \notin BoolTrue \cup BoolFalse)
    => /\ last.err = "parse"
       /\ last.doc = NoDocument
       /\ walkAst(last.nodes, 1, 1, FALSE, NoPragma, <<>>).err = "parse"
       /\ walkAst(last.nodes, 1, 1, FALSE, NoPragma, <<>>).Blocks = <<>>

\* The case of C17: the invalid pragma was followed by two Lua blocks.
InvalidBooleanPragmaWitness ==
    /\ Parsed
    /\ last.nodes = << HtmlNode("debug", NotABool), CodeNode("lua", <<"x", NL>>),
                       CodeNode("lua", <<"y", NL, "z", NL>>) >>
    /\ last.err = "parse"

\* A fenced code block tagged lua with at least one content line.
Qualifies(n) == n.kind = "code" /\ n.lang = "lua" /\ n.body /= <<>>

\* C18: the Blocks of a parsed Document carry the content of exactly the
\* qualifying code blocks, in document order, and a document that parses
\* without error has at least one; a document without a qualifying block
\* is an error.
LanguageFilter ==
    Parsed =>
        LET q == SelectSeq(last.nodes, Qualifies)
        IN  /\ last.err = "" =>
                /\ q /= <<>>
                /\ Len(last.doc.Blocks) = Len(q)
                /\ \A k \in 1..Len(q) : last.doc.Blocks[k].Code = q[k].body
            /\ q = <<>> => last.err /= "" /\ last.doc = NoDocument

\* The case of C18: a document with two qualifying blocks around a block
\* of another language.
LanguageFilterWitness ==
    /\ Parsed
    /\ last.nodes = << CodeNode("lua", <<"x", NL>>), CodeNode("go", <<"x", NL>>),
                       CodeNode("lua", <<"y", NL, "z", NL>>) >>
    /\ last.err = ""
    /\ Len(last.doc.Blocks) = 2

(***************************************************************************)
(* Claims on the writer (SpecWriter)                                       *)
(***************************************************************************)
\* Each block's Code followed by one newline, in order.
RECURSIVE PrettyText(_)
PrettyText(blocks) ==
    IF blocks = <<>> THEN <<>>
    ELSE Head(blocks).Code \o <<NL>> \o PrettyText(Tail(blocks))

\* C19: the output of Pretty WriteContent is, block after block in document
\* order, the block's Code followed by one newline and nothing else; after
\* WriteHeader the output is the header followed by that text.
PrettyOrdering ==
    /\ (last.op = "WriteContent" /\ last.mode = ModePretty)
       => last.err = "" /\ last.out = PrettyText(last.blocks)
    /\ last.op = "WriteHeader+WriteContent"
       => /\ last.err = ""
          /\ last.out = WriteHeader(last.src, last.generated)
                            \o PrettyText(last.blocks)

\* The case of C19: two blocks with different code, the first ending in a
\* newline of its own, written after the header.
PrettyOrderingWitness ==
    /\ last.op = "WriteHeader+WriteContent"
    /\ Len(last.blocks) = 2
    /\ last.blocks[1].Code = <<"a", NL>>
    /\ last.blocks[2].Code = <<"a", NL, NL, "b">>
    /\ last.out = WriteHeader(last.src, last.generated)
                      \o <<"a", NL, NL, "a", NL, NL, "b", NL>>

\* The destination lines of a block's placements.
Targets(block) ==
    { block.StartLine + i : i \in 0..(Len(BlockLines(block)) - 1) }

\* The lines that the placements of two blocks both target.
SharedTargets(blocks) ==
    UNION { Targets(blocks[p[1]]) \cap Targets(blocks[p[2]]) :
              p \in { q \in (1..Len(blocks)) \X (1..Len(blocks)) : q[1] < q[2] } }

\* C20: when the placements of two blocks target the same destination line,
\* Shadow WriteContent returns the collision error naming such a line and
\* writes nothing.
ShadowCollision ==
    (/\ last.op = "WriteContent"
     /\ last.mode = ModeShadow
     /\ SharedTargets(last.blocks) /= {})
    => /\ last.err = "collision"
       /\ last.line \in SharedTargets(last.blocks)
       /\ last.out = <<>>

(***************************************************************************)
(* Specification of the backup manager: CreateBackupOf calls at advancing  *)
(* clock readings on a disk with files and directories.                    *)
(***************************************************************************)
MaxBackups == 2   \* CreateBackupOf calls per behaviour

New == <<"n", "e", "w">>
FooLua == DirA \o <<Slash>> \o Foo \o LuaExt
BarLua == DirA \o <<Slash>> \o Bar \o LuaExt
DirAD == DirA \o <<Slash, "d">>

\* Paths backed up: two files, a directory, a path below a file, and the
\* first backup of the first file.
BackupTargets ==
    { FooLua, BarLua, DirAD, FooLua \o <<Slash, "x">>, BackupPath(FooLua, Stamp(0)) }

InitBackup ==
    /\ \E present \in SUBSET { FooLua, BarLua } :
          files = [p \in present |-> IF p = FooLua THEN Old ELSE New]
    /\ dirs = { <<Slash>>, DirA, DirAD }
    /\ now = 0
    /\ last = NoOp
    /\ ops = 0
    /\ IdleDoc
    /\ IdleLsp

CreateBackupOfOp ==
    /\ ops < MaxBackups
    /\ \E path \in BackupTargets :
        \E r \in { CreateBackupOf(files, dirs, path, Stamp(now)) } :
            /\ files' = r.files
            /\ last' = [op |-> "CreateBackupOf", path |-> path, before |-> files,
                        stamp |-> Stamp(now), err |-> r.err, bkPath |-> r.bkPath]
    /\ ops' = ops + 1
    /\ UNCHANGED <<dirs, now, docVars, lspVars>>

\* A second passes.
Tick ==
    /\ now < MaxBackups
    /\ now' = now + 1
    /\ UNCHANGED <<fsVars, last, ops, docVars, lspVars>>

NextBackup == CreateBackupOfOp \/ Tick

SpecBackup == InitBackup /\ [][NextBackup]_vars

\* os.Stat on the path reports that nothing exists there.
StatNotExist(fls, drs, path) ==
    /\ path \notin DOMAIN fls
    /\ path \notin drs
    /\ Ancestors(Dir(path)) \cap DOMAIN fls = {}

\* C21: CreateBackupOf on a path where nothing exists returns no backup
\* path and no error and leaves the disk as it was; on a regular file it
\* returns <path>.<timestamp>.bak, which then holds the content of the
\* file, every file that existed keeping its content; in every other case
\* (stat or copy failure) it returns an error and no backup path.
BackupContract ==
    last.op = "CreateBackupOf" =>
        /\ StatNotExist(last.before, dirs, last.path) =>
              last.err = "" /\ last.bkPath = <<>> /\ files = last.before
        /\ last.path \in DOMAIN last.before =>
              /\ last.err = ""
              /\ last.bkPath = last.path \o <<".", last.stamp>> \o BakExt
              /\ DOMAIN files = DOMAIN last.before \cup {last.bkPath}
              /\ files[last.bkPath] = last.before[last.path]
              /\ \A p \in DOMAIN last.before \ {last.bkPath} :
                    files[p] = last.before[p]
        /\ (~StatNotExist(last.before, dirs, last.path)
            /\ last.path \notin DOMAIN last.before) =>
              last.err /= "" /\ last.bkPath = <<>>
        /\ last.err /= "" => last.bkPath = <<>>

\* The case of C21: a file backed up a second time, a second later, while
\* its first backup is on disk.
BackupContractWitness ==
    /\ last.op = "CreateBackupOf"
    /\ last.path = FooLua
    /\ last.err = ""
    /\ last.bkPath = BackupPath(FooLua, Stamp(1))
    /\ BackupPath(FooLua, Stamp(0)) \in DOMAIN last.before
    /\ files[last.bkPath] = Old
    /\ files[FooLua] = Old

(***************************************************************************)
(* Further claims on the transformer (SpecTransformer)                     *)
(***************************************************************************)
\* The .bak files the last transformation created.
NewBackups ==
    { p \in DOMAIN files \ DOMAIN last.before : HasSuffix(p, BakExt) }

DidChangeNonBlocking ==
    [][ /\ Len(edits') = Len(edits) + 1 =>
            /\ last'.op = "textDocument/didChange"
            /\ last'.err = "" /\ last'.result = "null"
            /\ edits'[Len(edits')].st = "pending"
            /\ UNCHANGED <<files, dirs, shadowMap, lastFwd>>
        /\ Len(edits') = Len(edits) => last' = last ]_vars

\* The case of C28: the debounced work of the answered didChange has ended
\* in a transform failure, and that of an earlier one in a forward.
DidChangeNonBlockingWitness ==
    /\ last.op = "textDocument/didChange"
    /\ last.err = ""
    /\ Len(edits) = 2
    /\ edits[2].st = "done" /\ edits[2].changes = <<TextNoLua>> /\ edits[2].fwd = 0
    /\ edits[1].st = "done" /\ edits[1].fwd = 1

\* The didChange notifications for a URI whose timer or callback is in one
\* of the given states.
EditsIn(uri, states) ==
    { e \in DOMAIN edits : edits[e].uri = uri /\ edits[e].st \in states }

\* C29: for every document at most one debounce timer is pending and at
\* most one debounced materialization is in flight.
OnePendingPerDocument ==
    \A uri \in LspURIs :
        /\ Cardinality(EditsIn(uri, {"pending"})) <= 1
        /\ Cardinality(EditsIn(uri, {"transform", "read", "forward"})) <= 1

(***************************************************************************)
(* Specification of the debounce with two open documents whose names       *)
(* differ only in a path separator: /a/b.litlua.md and /ab.litlua.md.      *)
(***************************************************************************)
PairURIs == { UriAB, UriRootAB }

DidChangePair == DidChangeOn(PairURIs)

NextPair ==
    \/ DidChangePair
    \/ \E e \in DOMAIN edits : Fire(e)
    \/ \E e \in DOMAIN edits : CbTransform(e)
    \/ \E e \in DOMAIN edits : CbRead(e)
    \/ \E e \in DOMAIN edits : CbForward(e)

SpecPair == Init /\ [][NextPair]_vars

\* C30: a didChange for one document leaves the timers of every other
\* document as they are, and its debounced materialization leaves the
\* shadow map entry and the shadow file of every other document unchanged.
PerDocumentIndependence ==
    [][ /\ Len(edits') = Len(edits) + 1 =>
            \A e \in DOMAIN edits :
                edits[e].uri /= edits'[Len(edits')].uri =>
                    /\ edits'[e].st = edits[e].st
                    /\ debounceTimer'[edits[e].uri] = debounceTimer[edits[e].uri]
        /\ \A e \in DOMAIN edits :
             (Len(edits') = Len(edits) /\ edits[e].st = "transform"
              /\ edits'[e].st /= "transform") =>
                \A sh \in DOMAIN shadowMap :
                    shadowMap[sh] /= edits[e].uri =>
                        /\ sh \in DOMAIN shadowMap'
                        /\ shadowMap'[sh] = shadowMap[sh]
                        /\ URIToPath(sh) \in DOMAIN files =>
                              /\ URIToPath(sh) \in DOMAIN files'
                              /\ files'[URIToPath(sh)] = files[URIToPath(sh)] ]_vars

(***************************************************************************)
(* Failure containment of textDocument/didSave                             *)
(***************************************************************************)
\* C22: a textDocument/didSave that ends in an error (no shadow file for
\* the document, original unreadable, final transformation failed) leaves
\* every file on disk and the shadow map as they were.
DidSaveFailureContained ==
    [][ (Dispatched("textDocument/didSave") /\ last'.err /= "")
        => (files' = files /\ shadowMap' = shadowMap) ]_vars

\* A didSave of an open document, whose shadow file is on disk, failed in
\* the final transformation for want of an output pragma.
DidSaveFailureContainedWitness ==
    /\ last.op = "textDocument/didSave"
    /\ last.err = "nooutput"
    /\ \E sh \in DOMAIN shadowMap :
        shadowMap[sh] = last.uri /\ URIToPath(sh) \in DOMAIN files

(***************************************************************************)
(* Specification of the request dispatch: documents are opened, and        *)
(* position requests, ignored methods and methods of the default branch    *)
(* arrive, each answered by the Lua language server in one of a few ways.  *)
(***************************************************************************)
Null == [kind |-> "null"]
DefinitionMethod == "textDocument/definition"
HoverMethod == "textDocument/hover"
CompletionMethod == "textDocument/completion"
PositionMethods == { DefinitionMethod, HoverMethod, CompletionMethod }

\* The methods of the case that returns nothing.
ignoredMethods ==
    { "$/cancelRequest", "textDocument/documentHighlight", "textDocument/documentSymbol",
      "textDocument/foldingRange", "textDocument/documentColor", "textDocument/codeLens",
      "textDocument/codeAction", "textDocument/semanticTokens/range",
      "textDocument/semanticTokens/full", "$/setTrace" }

\* The methods with a case of their own in Handle.
handledMethods ==
    { "initialize", "initialized", "shutdown", "exit", "textDocument/didOpen",
      "textDocument/didChange", "textDocument/didSave" } \cup PositionMethods

\* Methods of the default branch that the model sends.
DefaultMethods == { ReferencesMethod, "workspace/symbol" }

\* Answers of the Lua language server: an error, a result that is a list of
\* one location link with the given target, and a result that is not a list.
ErrorResponse == [err |-> "luals", result |-> Null]
LinksResponse(target) ==
    [err |-> "", result |-> [kind |-> "links", links |-> << [TargetURI |-> target] >>]]
ScalarResponse == [err |-> "", result |-> [kind |-> "contents"]]

\* LuaLS.ForwardRequest: the request sent, and the server's answer returned.
ForwardRequest(method, params, response) ==
    [err |-> response.err, result |-> response.result,
     forwarded |-> << [method |-> method, params |-> params] >>]

\* The location links with each target URI mapped back to the document it
\* is the shadow of (left alone when it is no shadow).
remapLocationLinks(map, links) ==
    [i \in 1..Len(links) |->
        IF getShadowToOriginalURI(map, links[i].TargetURI).exists
        THEN [TargetURI |-> getShadowToOriginalURI(map, links[i].TargetURI).uri]
        ELSE links[i]]

\* A position request that is forwarded with the document's own URI (a
\* variant that is not the code's).
positionRequest_OriginalURI(map, method, uri, response) ==
    { IF ~s.exists
      THEN [err |-> "noshadow", result |-> Null, forwarded |-> <<>>]
      ELSE ForwardRequest(method, [uri |-> uri], response)
      : s \in ShadowURI(map, uri) }

\* The textDocument/definition, hover and completion branches of
\* Server.Handle: the shadow URI is looked up and put in place of the
\* document URI, and the request forwarded; the location links of a
\* definition answer are mapped back, and a definition answer that is not
\* a list of location links is an error.
positionRequest(map, method, uri, response) ==
    { IF ~s.exists
      THEN [err |-> "noshadow", result |-> Null, forwarded |-> <<>>]
      ELSE LET r == ForwardRequest(method, [uri |-> s.uri], response)
           IN  IF method /= DefinitionMethod \/ r.err /= "" THEN r
               ELSE IF r.result.kind /= "links"
               THEN [r EXCEPT !.err = "unparsable", !.result = Null]
               ELSE [r EXCEPT !.result.links = remapLocationLinks(map, r.result.links)]
      : s \in ShadowURI(map, uri) }

\* Every method of the last two branches forwarded (a variant that is not
\* the code's).
handleOther_ForwardsAll(method, params, response) ==
    ForwardRequest(method, params, response)

\* The last two branches of the switch in Server.Handle: the ignored
\* methods return nothing, every other method is passed on.
handleOther(method, params, response) ==
    IF method \in ignoredMethods
    THEN [err |-> "", result |-> Null, forwarded |-> <<>>]
    ELSE ForwardRequest(method, params, response)

DispatchURIs == { UriAB, UriRootAB }
RawParams == <<"r", "a", "w">>

\* The shadow URI of /a/b.litlua.md under the shadow root.
ShadowOfAB(root) == PathToURI(ShadowPath(ShadowTransformerOpts, root, URIToPath(UriAB)))

InitDispatch ==
    /\ shadowRoot = RootTmp
    /\ shadowMap = EmptyMap
    /\ returned = EmptyMap
    /\ files = DiskOf(shadowRoot) /\ dirs = DirsOf(shadowRoot)
    /\ now = 0
    /\ last = NoOp
    /\ ops = 0
    /\ IdleLsp

\* Server.Handle for textDocument/didOpen of /a/b.litlua.md.
DidOpenAB ==
    /\ ops < MaxRequests
    /\ \E r \in { didOpen(shadowRoot, shadowMap, UriAB, TextA, files, dirs, Stamp(now)) } :
            /\ files' = r.files
            /\ dirs' = r.dirs
            /\ shadowMap' = r.map
            /\ last' = [op |-> "textDocument/didOpen", id |-> 0, uri |-> UriAB,
                        err |-> r.err, forwarded |-> r.forwarded,
                        wasCanceled |-> FALSE]
    /\ trackRequestCount' = trackRequest(trackRequestCount, "textDocument/didOpen")
    /\ ops' = ops + 1
    /\ UNCHANGED <<now, shadowRoot, returned, edits, debounceTimer, lastFwd, canceled, batch, rw>>

\* Server.Handle for textDocument/definition, hover and completion.
PositionRequest ==
    /\ ops < MaxRequests
    /\ \E method \in PositionMethods, uri \in DispatchURIs,
          response \in { ErrorResponse, ScalarResponse, LinksResponse(ShadowOfAB(shadowRoot)) } :
        /\ method /= DefinitionMethod => response \in { ErrorResponse, ScalarResponse }
        /\ \E r \in positionRequest(shadowMap, method, uri, response) :
            last' = [op |-> method, uri |-> uri, params |-> [uri |-> uri],
                     response |-> response, err |-> r.err, result |-> r.result,
                     forwarded |-> r.forwarded]
        /\ trackRequestCount' = trackRequest(trackRequestCount, method)
    /\ ops' = ops + 1
    /\ UNCHANGED <<fsVars, now, docVars, edits, debounceTimer, lastFwd, canceled, batch, rw>>

\* Server.Handle for one of the ignored methods.
IgnoredRequest ==
    /\ ops < MaxRequests
    /\ \E method \in ignoredMethods \ {"$/cancelRequest"} :
        \E r \in { handleOther(method, RawParams, ScalarResponse) } :
            /\ last' = [op |-> method, uri |-> <<>>, params |-> RawParams,
                        response |-> ScalarResponse, err |-> r.err,
                        result |-> r.result, forwarded |-> r.forwarded]
            /\ trackRequestCount' = trackRequest(trackRequestCount, method)
    /\ ops' = ops + 1
    /\ UNCHANGED <<fsVars, now, docVars, edits, debounceTimer, lastFwd, canceled, batch, rw>>

\* Server.Handle for a method without a case of its own.
ProxiedRequest ==
    /\ ops < MaxRequests
    /\ \E method \in DefaultMethods, response \in { ErrorResponse, ScalarResponse } :
        \E r \in { handleOther(method, RawParams, response) } :
            /\ last' = [op |-> method, uri |-> <<>>, params |-> RawParams,
                        response |-> response, err |-> r.err,
                        result |-> r.result, forwarded |-> r.forwarded]
            /\ trackRequestCount' = trackRequest(trackRequestCount, method)
    /\ ops' = ops + 1
    /\ UNCHANGED <<fsVars, now, docVars, edits, debounceTimer, lastFwd, canceled, batch, rw>>

NextDispatch == DidOpenAB \/ PositionRequest \/ IgnoredRequest \/ ProxiedRequest

SpecDispatch == InitDispatch /\ [][NextDispatch]_vars

\* C23: a definition, hover or completion request for a document without
\* an entry in the shadow map is answered with an error and nothing is
\* forwarded; for a document with an entry exactly one request is
\* forwarded, of the same method and with the document's shadow URI.
PositionRequestMapping ==
    [][ (ops' = ops + 1 /\ last'.op \in PositionMethods)
        => IF \E sh \in DOMAIN shadowMap : shadowMap[sh] = last'.uri
           THEN /\ Len(last'.forwarded) = 1
                /\ last'.forwarded[1].method = last'.op
                /\ last'.forwarded[1].params.uri \in DOMAIN shadowMap
                /\ shadowMap[last'.forwarded[1].params.uri] = last'.uri
           ELSE last'.err /= "" /\ last'.forwarded = <<>> ]_vars

\* A position request for an open document was forwarded.
PositionRequestMappingWitness ==
    /\ last.op \in PositionMethods
    /\ last.uri = UriAB
    /\ Len(last.forwarded) = 1
    /\ \E sh \in DOMAIN shadowMap : shadowMap[sh] = UriAB

\* C24: each of the nine ignored methods is answered with an empty result
\* and no error and nothing is sent to the Lua language server; a method
\* that is neither ignored nor handled by a case of its own is forwarded
\* once with the parameters as received, and the answer of the Lua language
\* server, result or error, is returned as it is.
DispatchPartition ==
    [][ (ops' = ops + 1 /\ last'.op \notin handledMethods /\ last'.op /= "$/cancelRequest")
        => IF last'.op \in { "textDocument/documentHighlight", "textDocument/documentSymbol",
                             "textDocument/foldingRange", "textDocument/documentColor",
                             "textDocument/codeLens", "textDocument/codeAction",
                             "textDocument/semanticTokens/full",
                             "textDocument/semanticTokens/range", "$/setTrace" }
           THEN last'.err = "" /\ last'.result = Null /\ last'.forwarded = <<>>
           ELSE /\ last'.forwarded = << [method |-> last'.op, params |-> last'.params] >>
                /\ last'.err = last'.response.err
                /\ last'.result = last'.response.result ]_vars

\* An ignored method was answered after a method of the default branch
\* had been forwarded.
DispatchPartitionWitness ==
    /\ last.op \in ignoredMethods
    /\ last.forwarded = <<>>
    /\ \E m \in DefaultMethods : m \in DOMAIN trackRequestCount

(***************************************************************************)
(* Errors of the language-server handlers                                  *)
(***************************************************************************)
\* C25: a transformation of a changed document that fails is answered
\* with an error response for that document.
ErrorsSurfaced ==
    [][ \A e \in DOMAIN edits :
            (edits[e].st = "transform" /\ edits'[e].st = "done")
            => (last'.uri = edits[e].uri /\ last'.err /= "") ]_vars

(***************************************************************************)
(* Specification of the reader/writer pairs: a pair is made from two       *)
(* sides whose Close may fail, and is read, written and closed.            *)
(***************************************************************************)
MaxStreamOps == 3   \* calls made on one pair

\* One side of a pair: whether it is there at all (NewRWC accepts nil),
\* the error its Close returns, and how often its Close has been called.
Sides(name) ==
    [present : BOOLEAN, closeErr : { "", name }, closes : {0}]

\* Close of one side: the error it is set to fail with, and ErrClosed for
\* a side that was closed before.
sideClose(side) ==
    [err |-> IF side.closeErr /= "" THEN side.closeErr
             ELSE IF side.closes > 0 THEN "closed" ELSE "",
     side |-> [side EXCEPT !.closes = @ + 1]]

\* Read or Write of one side.
sideUse(side) ==
    IF ~side.present THEN "panic" ELSE IF side.closes > 0 THEN "closed" ELSE ""

\* RWC.Close: the reader is closed if there is one, and its error returned
\* at once; else the writer is closed if there is one.
CloseRWC(s) ==
    LET rc == sideClose(s.r)
        wc == sideClose(s.w)
    IN  IF s.r.present /\ rc.err /= ""
        THEN [err |-> rc.err, rw |-> [s EXCEPT !.r = rc.side]]
        ELSE LET s1 == IF s.r.present THEN [s EXCEPT !.r = rc.side] ELSE s
             IN  IF s.w.present
                 THEN [err |-> wc.err, rw |-> [s1 EXCEPT !.w = wc.side]]
                 ELSE [err |-> "", rw |-> s1]

\* rwc.Close: both sides are closed, and the reader's error comes first.
Closerwc(s) ==
    LET rc == sideClose(s.r)
        wc == sideClose(s.w)
    IN  [err |-> IF rc.err /= "" THEN rc.err ELSE wc.err,
         rw |-> [s EXCEPT !.r = rc.side, !.w = wc.side]]

\* The pairs made: NewRWC with any two sides, and the rwc literal of the
\* subprocess bridge with both pipes.
InitStream ==
    /\ rw \in [kind : {"RWC"}, r : Sides("rerr"), w : Sides("werr")]
              \cup { s \in [kind : {"rwc"}, r : Sides("rerr"), w : Sides("werr")] :
                       s.r.present /\ s.w.present }
    /\ files = EmptyFiles /\ dirs = {}
    /\ now = 0
    /\ last = NoOp
    /\ ops = 0
    /\ IdleDoc
    /\ edits = <<>> /\ debounceTimer = EmptyMap /\ lastFwd = EmptyMap
    /\ trackRequestCount = EmptyMap /\ canceled = {}
    /\ batch = NoBatch

streamOther == <<fsVars, now, docVars, edits, debounceTimer, lastFwd,
                 trackRequestCount, canceled, batch>>

\* Read: delegated to the reader.
StreamRead ==
    /\ ops < MaxStreamOps
    /\ last' = [op |-> "Read", err |-> sideUse(rw.r)]
    /\ ops' = ops + 1
    /\ UNCHANGED <<rw, streamOther>>

\* Write: delegated to the writer.
StreamWrite ==
    /\ ops < MaxStreamOps
    /\ last' = [op |-> "Write", err |-> sideUse(rw.w)]
    /\ ops' = ops + 1
    /\ UNCHANGED <<rw, streamOther>>

\* Close of the pair.
StreamClose ==
    /\ ops < MaxStreamOps
    /\ \E c \in { IF rw.kind = "RWC" THEN CloseRWC(rw) ELSE Closerwc(rw) } :
        /\ rw' = c.rw
        /\ last' = [op |-> "Close", err |-> c.err]
    /\ ops' = ops + 1
    /\ UNCHANGED streamOther

NextStream == StreamRead \/ StreamWrite \/ StreamClose

SpecStream == InitStream /\ [][NextStream]_vars

\* C26: Close calls the Close of the reader and of the writer, each side
\* that is there, whatever the other returns, and returns the reader's
\* error if it has one and else the writer's.
CloseBothSides ==
    [][ (ops' = ops + 1 /\ last'.op = "Close")
        => /\ rw.r.present => rw'.r.closes = rw.r.closes + 1
           /\ rw.w.present => rw'.w.closes = rw.w.closes + 1
           /\ last'.err = IF rw.r.present /\ sideClose(rw.r).err /= ""
                          THEN sideClose(rw.r).err
                          ELSE IF rw.w.present THEN sideClose(rw.w).err ELSE "" ]_vars

(***************************************************************************)
(* Termination of the worker pool                                          *)
(***************************************************************************)
\* The paths the workers hold.
HeldPaths == { batch.held[w] : w \in { v \in Workers : batch.held[v] /= <<>> } }

ShadowMapLifecycle ==
    [][ /\ ~Dispatched("shutdown") => DOMAIN shadowMap \subseteq DOMAIN shadowMap'
        /\ Dispatched("shutdown") =>
             /\ shadowMap' = EmptyMap
             /\ \A uri \in OpenURIs :
                  \A s \in ShadowURI(shadowMap', uri) : ~s.exists ]_vars

(***************************************************************************)
(* Request counting                                                        *)
(***************************************************************************)
\* C33: the first dispatch of a method sets its counter to 1 and every
\* later dispatch adds one to it.
RequestCounting ==
    [][ ops' = ops + 1 =>
          /\ last'.op \in DOMAIN trackRequestCount'
          /\ trackRequestCount'[last'.op] =
               IF last'.op \in DOMAIN trackRequestCount
               THEN trackRequestCount[last'.op] + 1
               ELSE 1 ]_vars

(***************************************************************************)
(* Shadow paths and the reverse lookup                                     *)
(***************************************************************************)
\* C34: different documents have different shadow URIs: the shadow URIs
\* returned for two documents differ, and each is still mapped to its own
\* document.
ShadowPathInjective ==
    \A u, v \in DOMAIN returned :
        /\ u /= v => returned[u] /= returned[v]
        /\ returned[u] \in DOMAIN shadowMap
        /\ shadowMap[returned[u]] = u

\* C40: every shadow URI recorded in the map is found by the server's
\* reverse lookup, given as it is or with a leading /private path segment,
\* and the lookup returns the document it was recorded for.
ReverseLookupComplete ==
    \A sh \in DOMAIN shadowMap :
        /\ getShadowToOriginalURI(shadowMap, sh)
             = [uri |-> shadowMap[sh], exists |-> TRUE]
        /\ getShadowToOriginalURI(shadowMap, WithPrivate(sh))
             = [uri |-> shadowMap[sh], exists |-> TRUE]

(***************************************************************************)
(* Writers of one output file in a batch                                   *)
(***************************************************************************)
\* The output file the transformation of a source file of the batch
\* writes (empty when the file does not parse).
OutputOf(path) ==
    IF path \notin DOMAIN files \/ ParseMarkdownDoc(files[path]).err /= "" THEN <<>>
    ELSE resolveTransformToAbsPath(CliOpts, path, ParseMarkdownDoc(files[path]).Pragmas)

\* C35: no two workers are at the same time in the processFile of source
\* files that are written to the same output file.
NoConcurrentWriters ==
    \A v, w \in Workers :
        (v /= w /\ batch.phase = "running"
           /\ batch.held[v] /= <<>> /\ batch.held[w] /= <<>>
           /\ OutputOf(batch.held[v]) /= <<>>)
        => OutputOf(batch.held[v]) /= OutputOf(batch.held[w])

(***************************************************************************)
(* Specification of the transformer on a disk whose writes can fail: one   *)
(* Transform or TransformToPath, in which the write to the created output  *)
(* file may return an error.                                               *)
(***************************************************************************)
\* What the created output file holds when a write to it fails: nothing,
\* or in Pretty mode the header when the content is what fails.
WritePrefixes(opts, absSource, stamp) ==
    { <<>> } \cup (IF opts.WriterMode = ModePretty
                  THEN { WriteHeader(absSource, stamp) } ELSE {})

\* The outcome of a transformation whose run without a failing write is
\* r: when r is an error the call has returned before os.Create; else the
\* output file has been created (truncated) and holds the given prefix,
\* and the write error is returned.
WriteFault(r, prefix) ==
    IF r.err /= "" THEN r
    ELSE Failed("write", WriteFile(r.files, r.path, prefix), r.dirs)

FaultSource == SrcOf(DirA, Foo)

TransformFaultOp ==
    /\ ops < MaxOps
    /\ \E opts \in { CliOpts, FinalTransformerOpts }, d \in DocInputs, fault \in BOOLEAN :
          \E r \in { Transform(opts, DocText(d.output, d.force, d.lang), FaultSource,
                                files, dirs, Stamp(now)) } :
            \E f \in IF fault
                      THEN { WriteFault(r, pre) :
                               pre \in WritePrefixes(opts, FaultSource, Stamp(now)) }
                      ELSE { r } :
              /\ files' = f.files
              /\ dirs' = f.dirs
              /\ last' = OpRecord("Transform", opts, d.output, d.force, d.lang,
                                  FaultSource, <<>>, f)
    /\ ops' = ops + 1
    /\ UNCHANGED <<now, docVars, lspVars>>

TransformToPathFaultOp ==
    /\ ops < MaxOps
    /\ \E d \in DocInputs, forced \in ForcedPaths, fault \in BOOLEAN :
          \E r \in { TransformToPath(ShadowTransformerOpts,
                                      DocText(d.output, d.force, d.lang), FaultSource,
                                      forced, files, dirs, Stamp(now)) } :
            \E f \in IF fault
                      THEN { WriteFault(r, pre) :
                               pre \in WritePrefixes(ShadowTransformerOpts, FaultSource,
                                                     Stamp(now)) }
                      ELSE { r } :
              /\ files' = f.files
              /\ dirs' = f.dirs
              /\ last' = OpRecord("TransformToPath", ShadowTransformerOpts,
                                  d.output, d.force, d.lang, FaultSource, forced, f)
    /\ ops' = ops + 1
    /\ UNCHANGED <<now, docVars, lspVars>>

NextFaults == TransformFaultOp \/ TransformToPathFaultOp

SpecFaults == InitTransformer /\ [][NextFaults]_vars

(***************************************************************************)
(* Failure atomicity of a transformation                                   *)
(***************************************************************************)
\* C36: when Transform or TransformToPath returns an error, every file
\* that was on disk before the call, backups aside, is still there with
\* the content it had: a failed transformation leaves no output file
\* truncated or partly written.
FailureAtomicity ==
    (last.op \in {"Transform", "TransformToPath"} /\ last.err /= "") =>
        \A p \in DOMAIN last.before :
            ~HasSuffix(p, BakExt) => (p \in DOMAIN files /\ files[p] = last.before[p])

(***************************************************************************)
(* Specification of edits and shutdown: didChange notifications for one    *)
(* document, their timers and callbacks, and shutdown requests.            *)
(***************************************************************************)
DidChangeAB == DidChangeOn({UriAB})

NextQuiesce ==
    \/ DidChangeAB
    \/ Shutdown
    \/ \E e \in DOMAIN edits : Fire(e)
    \/ \E e \in DOMAIN edits : CbTransform(e)
    \/ \E e \in DOMAIN edits : CbRead(e)
    \/ \E e \in DOMAIN edits : CbForward(e)

SpecQuiesce == Init /\ [][NextQuiesce]_vars

\* C37: while shutdown is the last request handled, no file is created or
\* rewritten and no didChange is forwarded to the Lua language server.
QuiescenceAfterShutdown ==
    [][ (last.op = "shutdown" /\ last' = last /\ ops' = ops)
        => (files' = files /\ lastFwd' = lastFwd) ]_vars

(***************************************************************************)
(* Fair scheduling of the debounce timers: a pending timer fires, and a    *)
(* callback that has started runs its next statement.                      *)
(***************************************************************************)
CallbackStates == { "transform", "read", "forward" }

\* One statement of the callback of edit e, by its effect on the edit's state.
CbStep(e) ==
    /\ edits[e].st \in CallbackStates
    /\ \/ /\ edits' = [edits EXCEPT ![e].st = "done"]
          /\ UNCHANGED <<fsVars, now, last, ops, docVars, debounceTimer, lastFwd, srvVars, batch, rw>>
       \/ edits'[e].st /= edits[e].st

FairEdits ==
    /\ Spec
    /\ WF_vars(\E e \in DOMAIN edits : Fire(e))
    /\ WF_vars(\E e \in DOMAIN edits : CbStep(e))

\* The texts of Texts that ParseMarkdownDoc accepts.
ParsingTexts == { t \in Texts : ParseMarkdownDoc(t).err = "" }

\* A later didChange for the URI of edit e that carries content.
SupersededByContent(e) ==
    \E o \in DOMAIN edits :
        o > e /\ edits[o].uri = edits[e].uri /\ Len(edits[o].changes) > 0

\* C38: every didChange that carries a text that parses is eventually
\* forwarded as a didChange built from its content, unless a later didChange
\* for the same URI carries content.
EditLiveness ==
    \A e \in 1..MaxEdits :
        (e \in DOMAIN edits /\ edits[e].changes \in { <<t>> : t \in ParsingTexts })
        ~> (e \in DOMAIN edits /\ (edits[e].fwd > 0 \/ SupersededByContent(e)))

(***************************************************************************)
(* Accesses to DocumentService.shadowMap.  The callback of a fired timer   *)
(* runs on its own goroutine and writes the map in TransformShadowDoc; the *)
(* map has no lock of its own and the debounce mutex is released before    *)
(* any callback runs.                                                      *)
(***************************************************************************)
\* The callbacks whose next statement is TransformShadowDoc.
MapWriters == { e \in DOMAIN edits : edits[e].st = "transform" }

\* C39: no two threads are at an access of the shadow map at once with one
\* of them writing: at most one timer callback is at its TransformShadowDoc.
ShadowMapExclusive == Cardinality(MapWriters) <= 1

====
